---- MODULE Spec2Model ----
(***************************************************************************)
(* Kenya Law Reports AI frontend: the API base-URL resolver                *)
(* (utils/api.ts: detectBasePath, getApiBaseUrl, API_BASE), the answer     *)
(* normalizer and splitter of the Ask AI page (normalizeResponseText,      *)
(* handleSubmit, clearChat) and the pages that call the backend.           *)
(*                                                                         *)
(* A JavaScript string is a sequence of one-character strings, so that     *)
(* trimming, splitting, prefix tests and replacements are computed         *)
(* character by character as the source's string methods and regular       *)
(* expressions compute them.                                               *)
(***************************************************************************)
EXTENDS Integers, Sequences, FiniteSets, TLC

(***************************************************************************)
(* Bounds of the model: how many fragments an input string is built from.  *)
(***************************************************************************)
MaxUrlFrags == 3

MaxPathFrags == 4

MaxTextFrags == 4

MaxAnswerFrags == 4

MaxQueries == 2

MaxLogins == 2

MaxAccepted == 2

MaxUploads == 2

MaxBriefs == 2

(***************************************************************************)
(* String primitives (ECMAScript String.prototype methods).                *)
(***************************************************************************)
\* The characters String.prototype.trim removes that occur in the model.
WhiteSpace == {" ", "\n", "\t"}

UpperCase == <<"A","B","C","D","E","F","G","H","I","J","K","L","M",
               "N","O","P","Q","R","S","T","U","V","W","X","Y","Z">>

LowerCase == <<"a","b","c","d","e","f","g","h","i","j","k","l","m",
               "n","o","p","q","r","s","t","u","v","w","x","y","z">>

toLowerChar(c) ==
  IF \E i \in 1..26 : UpperCase[i] = c
  THEN LowerCase[CHOOSE i \in 1..26 : UpperCase[i] = c]
  ELSE c

\* String.prototype.toLowerCase
toLowerCase(s) == [i \in 1..Len(s) |-> toLowerChar(s[i])]

\* String.prototype.startsWith
startsWith(s, p) == Len(s) >= Len(p) /\ SubSeq(s, 1, Len(p)) = p

\* String.prototype.endsWith
endsWith(s, p) == Len(s) >= Len(p) /\ SubSeq(s, Len(s) - Len(p) + 1, Len(s)) = p

\* A case-insensitive prefix test: /^p/i.test(s) for a literal p.
startsWithIgnoreCase(s, p) ==
  Len(s) >= Len(p) /\ toLowerCase(SubSeq(s, 1, Len(p))) = toLowerCase(p)

\* s.slice(n): s without its first n characters.
dropFirst(s, n) == SubSeq(s, n + 1, Len(s))

\* s.slice(0, -1)
dropLast(s) == SubSeq(s, 1, Len(s) - 1)

\* s.replace(/^C+/, '') for a set C of characters.
stripLeading(s, C) ==
  LET n == CHOOSE k \in 0..Len(s) :
             /\ \A i \in 1..k : s[i] \in C
             /\ k < Len(s) => s[k + 1] \notin C
  IN SubSeq(s, n + 1, Len(s))

\* s.replace(/C+$/, '') for a set C of characters.
stripTrailing(s, C) ==
  LET n == CHOOSE k \in 0..Len(s) :
             /\ \A i \in (k + 1)..Len(s) : s[i] \in C
             /\ k > 0 => s[k] \notin C
  IN SubSeq(s, 1, n)

\* String.prototype.trim
trim(s) == stripTrailing(stripLeading(s, WhiteSpace), WhiteSpace)

\* s.indexOf(p) + 1: where p first occurs in s, 0 if nowhere.
indexOf(s, p) ==
  LET At(i) == SubSeq(s, i, i + Len(p) - 1) = p
      Hits == {i \in 1..(Len(s) - Len(p) + 1) : At(i)}
  IN IF Hits = {} THEN 0 ELSE CHOOSE i \in Hits : \A j \in Hits : i <= j

RECURSIVE split(_, _)
\* String.prototype.split, for a non-empty literal d.
split(s, d) ==
  LET i == indexOf(s, d) IN
  IF i = 0 THEN <<s>>
  ELSE <<SubSeq(s, 1, i - 1)>> \o split(dropFirst(s, i + Len(d) - 1), d)

RECURSIVE join(_, _)
\* Array.prototype.join
join(parts, d) ==
  IF parts = <<>> THEN <<>>
  ELSE IF Len(parts) = 1 THEN parts[1]
  ELSE parts[1] \o d \o join(Tail(parts), d)

RECURSIVE replaceAll(_, _, _)
\* s.replace(/p/g, r) for a literal, non-empty p.
replaceAll(s, p, r) ==
  LET i == indexOf(s, p) IN
  IF i = 0 THEN s
  ELSE SubSeq(s, 1, i - 1) \o r \o replaceAll(dropFirst(s, i + Len(p) - 1), p, r)

RECURSIVE Concats(_, _)
\* The strings made of at most n fragments of F, in any order.
Concats(F, n) ==
  IF n = 0 THEN {<<>>}
  ELSE LET P == Concats(F, n - 1) IN P \cup {p \o f : p \in P, f \in F}

(***************************************************************************)
(* utils/api.ts: the base-path and API base-URL resolver.                  *)
(***************************************************************************)
Slash == <<"/">>

ApiSuffix == <<"/","a","p","i">>

IndexHtml == <<"i","n","d","e","x",".","h","t","m","l">>

APP_ROUTES ==
  { <<>>,
    <<"l","o","g","i","n">>,
    <<"a","s","k","-","a","i">>,
    <<"u","p","l","o","a","d","s">>,
    <<"r","e","p","o","r","t","s">>,
    <<"d","a","s","h","b","o","a","r","d">> }

\* A filter that forgets the 'index.html' test.
keepPart_NoIndexHtml(part) == part # <<>>

\* pathname.replace(/^\/+|\/+$/g, '').split('/').filter(part => part && part !== 'index.html')
keepPart(part) == part # <<>> /\ part # IndexHtml

RECURSIVE filterParts(_)
filterParts(parts) ==
  IF parts = <<>> THEN <<>>
  ELSE IF keepPart(Head(parts)) THEN <<Head(parts)>> \o filterParts(Tail(parts))
  ELSE filterParts(Tail(parts))

pathPartsOf(pathname) ==
  filterParts(split(stripTrailing(stripLeading(pathname, {"/"}), {"/"}), Slash))

isAppRoute(part) == toLowerCase(part) \in APP_ROUTES

\* pathParts.findIndex(part => APP_ROUTES.includes(part.toLowerCase())), 0-based, -1 if none.
findRouteIndex(pathParts) ==
  IF \E i \in 1..Len(pathParts) : isAppRoute(pathParts[i])
  THEN (CHOOSE i \in 1..Len(pathParts) :
          /\ isAppRoute(pathParts[i])
          /\ \A j \in 1..(i - 1) : ~isAppRoute(pathParts[j])) - 1
  ELSE -1

\* The base tag of the document: document.querySelector('base') and its href attribute.
\* raises: document.querySelector itself raises (there is a location to read but
\* no document to query).
NoBaseTag == [tag |-> FALSE, hasHref |-> FALSE, href |-> <<>>, raises |-> FALSE]

BaseTagNoHref == [tag |-> TRUE, hasHref |-> FALSE, href |-> <<>>, raises |-> FALSE]

BaseTag(h) == [tag |-> TRUE, hasHref |-> TRUE, href |-> h, raises |-> FALSE]

NoDocument == [tag |-> FALSE, hasHref |-> FALSE, href |-> <<>>, raises |-> TRUE]

\* A last resort that accepts a relative base href (no startsWith('/') test).
baseTagPath_Relative(baseTag) ==
  IF baseTag.tag /\ baseTag.hasHref /\ baseTag.href # <<>>
  THEN LET baseHref == baseTag.href
           basePath == IF endsWith(baseHref, Slash) THEN dropLast(baseHref) ELSE baseHref
       IN IF baseHref # Slash /\ basePath # <<>> THEN basePath ELSE <<>>
  ELSE <<>>

\* A last resort that keeps the trailing slash of the base href.
baseTagPath_KeepSlash(baseTag) ==
  IF baseTag.tag /\ baseTag.hasHref /\ baseTag.href # <<>>
  THEN LET baseHref == baseTag.href
       IN IF baseHref # Slash /\ startsWith(baseHref, Slash) THEN baseHref ELSE <<>>
  ELSE <<>>

\* The last resort of detectBasePath: the document's base href.
baseTagPath(baseTag) ==
  IF baseTag.tag /\ baseTag.hasHref /\ baseTag.href # <<>>
  THEN LET baseHref == baseTag.href
           basePath == IF endsWith(baseHref, Slash) THEN dropLast(baseHref) ELSE baseHref
       IN IF baseHref # Slash /\ startsWith(baseHref, Slash) /\ basePath # <<>>
          THEN basePath
          ELSE <<>>
  ELSE <<>>

\* A detection that returns the lower-cased first segment (firstPart) instead of pathParts[0].
detectBasePath_LowerCased(dom, pathname, baseTag) ==
  IF ~dom THEN <<>>
  ELSE
    LET pathParts == pathPartsOf(pathname) IN
    IF Len(pathParts) = 0 THEN <<>>
    ELSE IF ~isAppRoute(pathParts[1]) THEN Slash \o toLowerCase(pathParts[1])
    ELSE <<>>

\* A detection without its try/catch: what raises inside reaches the caller.
detectBasePathRaises_NoTryCatch(dom, pathname, baseTag) ==
  \/ ~dom
  \/ LET pathParts == pathPartsOf(pathname) IN
     Len(pathParts) > 0 /\ isAppRoute(pathParts[1]) /\ baseTag.raises

\* Whether detectBasePath() raises to its caller: its whole body is inside
\* try { ... } catch (error) { console.warn(...) }, followed by return ''.
detectBasePathRaises(dom, pathname, baseTag) == FALSE

\* A detection that returns the first segment without the '/' in front of it.
detectBasePath_NoSlash(dom, pathname, baseTag) ==
  IF ~dom THEN <<>>
  ELSE
    LET pathParts == pathPartsOf(pathname) IN
    IF Len(pathParts) = 0 THEN <<>>
    ELSE IF ~isAppRoute(pathParts[1]) THEN pathParts[1]
    ELSE baseTagPath(baseTag)

\* A detection that scans for the first known route before it looks at the
\* first segment, and returns the segments before that route.
detectBasePath_ScanFirst(dom, pathname, baseTag) ==
  IF ~dom THEN <<>>
  ELSE
    LET pathParts == pathPartsOf(pathname)
        routeIndex == findRouteIndex(pathParts) IN
    IF Len(pathParts) = 0 THEN <<>>
    ELSE IF routeIndex > 0 THEN Slash \o join(SubSeq(pathParts, 1, routeIndex), Slash)
    ELSE IF routeIndex = 0 THEN baseTagPath(baseTag)
    ELSE Slash \o pathParts[1]

\* detectBasePath(): dom is FALSE when reading window.location raises (no
\* window), which the try/catch turns into the root result.
detectBasePath(dom, pathname, baseTag) ==
  IF ~dom THEN <<>>
  ELSE
    LET pathParts == pathPartsOf(pathname) IN
    IF Len(pathParts) = 0 THEN <<>>
    ELSE IF ~isAppRoute(pathParts[1]) THEN Slash \o pathParts[1]
    ELSE
      LET routeIndex == IF Len(pathParts) > 1 THEN findRouteIndex(pathParts) ELSE 0 IN
      IF Len(pathParts) > 1 /\ routeIndex > 0
      THEN Slash \o join(SubSeq(pathParts, 1, routeIndex), Slash)
      ELSE baseTagPath(baseTag)

\* An override that appends '/api' without looking at the suffix.
apiUrlFromOverride_AlwaysAppend(envUrl) ==
  LET apiUrl == trim(envUrl)
      cleanUrl == IF endsWith(apiUrl, Slash) THEN dropLast(apiUrl) ELSE apiUrl
  IN cleanUrl \o ApiSuffix

\* Option 1 of getApiBaseUrl: the explicit REACT_APP_API_BASE_URL.
apiUrlFromOverride(envUrl) ==
  LET apiUrl == trim(envUrl)
      cleanUrl == IF endsWith(apiUrl, Slash) THEN dropLast(apiUrl) ELSE apiUrl
  IN IF endsWith(cleanUrl, ApiSuffix) THEN cleanUrl ELSE cleanUrl \o ApiSuffix

\* A build-time base that keeps its trailing slash.
apiUrlFromPublicUrl_KeepSlash(publicUrl) == publicUrl \o ApiSuffix

\* Option 2 of getApiBaseUrl: PUBLIC_URL set at build time.
apiUrlFromPublicUrl(publicUrl) ==
  LET cleanBase == IF endsWith(publicUrl, Slash) THEN dropLast(publicUrl) ELSE publicUrl
  IN cleanBase \o ApiSuffix

\* Whether getApiBaseUrl() raises: tiers 1 and 2 call string methods on strings,
\* tier 3 raises if detectBasePath() does.
getApiBaseUrlRaises(envUrl, publicUrl, dom, pathname, baseTag) ==
  /\ envUrl = <<>>
  /\ ~(publicUrl # <<>> /\ publicUrl # Slash)
  /\ detectBasePathRaises(dom, pathname, baseTag)

\* getApiBaseUrl(): an unset environment variable and an empty one are both
\* falsy, and both are the empty string here.
getApiBaseUrl(envUrl, publicUrl, dom, pathname, baseTag) ==
  IF envUrl # <<>> THEN apiUrlFromOverride(envUrl)
  ELSE IF publicUrl # <<>> /\ publicUrl # Slash THEN apiUrlFromPublicUrl(publicUrl)
  ELSE detectBasePath(dom, pathname, baseTag) \o ApiSuffix

(***************************************************************************)
(* pages/AskAI.tsx: the response normalizer and the answer splitter.       *)
(***************************************************************************)
ContentMarker == <<"c","o","n","t","e","n","t","=">>

Quote == <<"'">>

Backslash == <<"\\">>

EscapedNewline == Backslash \o <<"n">>

EscapedTab == Backslash \o <<"t">>

Delimiter == <<"-","-","-">>

GuidanceLabel ==
  <<"S","y","s","t","e","m"," ","g","u","i","d","a","n","c","e"," ",
    "a","p","p","l","i","e","d",":">>

\* The kinds of value normalizeResponseText may be handed at run time: a
\* string, undefined or null ("missing"), or a truthy value that is no string
\* ("other": a number, an object).
ArgKinds == {"string", "missing", "other"}

\* A normalizer that calls text.trim() without the || '' in front of it.
normalizeRaises_NoDefault(kind) == kind # "string"

\* Whether normalizeResponseText raises: (text || '') is '' for a missing value
\* and the value itself for a truthy one, on which .trim() must exist.
normalizeRaises(kind) == kind = "other"

\* (text || '')
textOrEmpty(kind, str) == IF kind = "missing" THEN <<>> ELSE str

\* A normalizer that strips a trailing quote whether or not the marker is there.
normalizeResponseText_AnyQuote(text) ==
  LET trimmed == trim(text)
      unmarked == IF startsWithIgnoreCase(trimmed, ContentMarker)
                  THEN LET rest == dropFirst(trimmed, Len(ContentMarker))
                       IN IF startsWith(rest, Quote) THEN dropFirst(rest, 1) ELSE rest
                  ELSE trimmed
      unwrapped == IF endsWith(unmarked, Quote) THEN dropLast(unmarked) ELSE unmarked
  IN trim(replaceAll(replaceAll(unwrapped, EscapedNewline, <<"\n">>), EscapedTab, <<"\t">>))

\* A normalizer that forgets the final trim.
normalizeResponseText_NoFinalTrim(text) ==
  LET trimmed == trim(text)
      unwrapped ==
        IF startsWithIgnoreCase(trimmed, ContentMarker)
        THEN LET rest == dropFirst(trimmed, Len(ContentMarker))
                 unquoted == IF startsWith(rest, Quote) THEN dropFirst(rest, 1) ELSE rest
             IN IF endsWith(unquoted, Quote) THEN dropLast(unquoted) ELSE unquoted
        ELSE trimmed
  IN replaceAll(replaceAll(unwrapped, EscapedNewline, <<"\n">>), EscapedTab, <<"\t">>)

\* normalizeResponseText(text), text a string ('' for a missing value).
normalizeResponseText(text) ==
  LET trimmed == trim(text)
      unwrapped ==
        IF startsWithIgnoreCase(trimmed, ContentMarker)
        THEN LET rest == dropFirst(trimmed, Len(ContentMarker))
                 \* .replace(/^content='?/i, '')
                 unquoted == IF startsWith(rest, Quote) THEN dropFirst(rest, 1) ELSE rest
             \* .replace(/'$/i, '')
             IN IF endsWith(unquoted, Quote) THEN dropLast(unquoted) ELSE unquoted
        ELSE trimmed
  IN trim(replaceAll(replaceAll(unwrapped, EscapedNewline, <<"\n">>), EscapedTab, <<"\t">>))

RECURSIVE trimmedNonEmpty(_)
\* segs.map(seg => seg.trim()).filter(Boolean)
trimmedNonEmpty(segs) ==
  IF segs = <<>> THEN <<>>
  ELSE LET seg == trim(Head(segs)) IN
       IF seg # <<>> THEN <<seg>> \o trimmedNonEmpty(Tail(segs))
       ELSE trimmedNonEmpty(Tail(segs))

\* guidanceCandidate.replace(/^System guidance applied:\s*/i, '')
stripGuidanceLabel(s) ==
  IF startsWithIgnoreCase(s, GuidanceLabel)
  THEN stripLeading(dropFirst(s, Len(GuidanceLabel)), WhiteSpace)
  ELSE s

\* An optional value: <<>> is undefined, <<v>> is v.
Undefined == <<>>

Some(v) == <<v>>

\* A splitter that takes a single non-empty piece for a split answer (length > 0).
splitAnswer_OnePiece(rawAnswer) ==
  LET guidanceSegments == trimmedNonEmpty(split(rawAnswer, Delimiter)) IN
  IF Len(guidanceSegments) > 0
  THEN [ mainContent |-> normalizeResponseText(guidanceSegments[1]),
         systemGuidance |->
           Some(normalizeResponseText(stripGuidanceLabel(
                  join(Tail(guidanceSegments), <<" ">> \o Delimiter \o <<" ">>)))) ]
  ELSE [ mainContent |-> normalizeResponseText(rawAnswer), systemGuidance |-> Undefined ]

\* A splitter that keeps the guidance label.
splitAnswer_KeepLabel(rawAnswer) ==
  LET guidanceSegments == trimmedNonEmpty(split(rawAnswer, Delimiter)) IN
  IF Len(guidanceSegments) > 1
  THEN [ mainContent |-> normalizeResponseText(guidanceSegments[1]),
         systemGuidance |->
           Some(normalizeResponseText(
                  join(Tail(guidanceSegments), <<" ">> \o Delimiter \o <<" ">>))) ]
  ELSE [ mainContent |-> normalizeResponseText(rawAnswer), systemGuidance |-> Undefined ]

\* handleSubmit, from rawAnswer to the content and systemGuidance of aiMessage.
splitAnswer(rawAnswer) ==
  LET guidanceSegments == trimmedNonEmpty(split(rawAnswer, Delimiter)) IN
  IF Len(guidanceSegments) > 1
  THEN [ mainContent |-> normalizeResponseText(guidanceSegments[1]),
         systemGuidance |->
           Some(normalizeResponseText(stripGuidanceLabel(
                  join(Tail(guidanceSegments), <<" ">> \o Delimiter \o <<" ">>)))) ]
  ELSE [ mainContent |-> normalizeResponseText(rawAnswer), systemGuidance |-> Undefined ]

\* response.data.answer: a string, a missing value, or a truthy value that is no string.
StringAnswer(s) == [kind |-> "string", str |-> s]

MissingAnswer == [kind |-> "missing", str |-> <<>>]

NonStringAnswer == [kind |-> "other", str |-> <<>>]

\* The endpoints of the backend.
QueryEndpoint == <<"/","q","u","e","r","y">>

PromptsEndpoint == <<"/","p","r","o","m","p","t","s">>

(***************************************************************************)
(* contexts/AuthContext.tsx: the demo accounts and the stored session.     *)
(***************************************************************************)
\* A value a property lookup on demoUsers may give: an account record, or
\* something inherited from Object.prototype.
Account(id, name, email, role) ==
  [kind |-> "account", id |-> id, name |-> name, email |-> email, role |-> role]

\* What is not an account: a function such as Object ("function"),
\* Object.prototype itself ("prototype"), or a parsed '{}' ("object").
NonAccount(kind) == [kind |-> kind, id |-> "", name |-> "", email |-> "", role |-> ""]

DemoEmails ==
  { "admin@kenyalaw.ai", "researcher@kenyalaw.ai", "advocate@kenyalaw.ai",
    "admin@patriotai.ke", "analyst@patriotai.ke" }

\* The own properties of the demoUsers literal.
demoUsers ==
  [e \in DemoEmails |->
     CASE e = "admin@kenyalaw.ai" -> Account("1", "Admin User", e, "admin")
       [] e = "researcher@kenyalaw.ai" -> Account("2", "Legal Researcher", e, "researcher")
       [] e = "advocate@kenyalaw.ai" -> Account("3", "Advocate", e, "advocate")
       [] e = "admin@patriotai.ke" -> Account("1", "Admin User", e, "admin")
       [] e = "analyst@patriotai.ke" -> Account("2", "Legal Researcher", e, "researcher")]

\* Property names every object literal inherits from Object.prototype.
InheritedKeys == {"constructor", "toString", "__proto__"}

\* demoUsers[email]: an own property, an inherited one, or undefined.
lookupDemoUser(email) ==
  IF email \in DemoEmails THEN Some(demoUsers[email])
  ELSE IF email = "__proto__" THEN Some(NonAccount("prototype"))
  ELSE IF email \in InheritedKeys THEN Some(NonAccount("function"))
  ELSE Undefined

\* What localStorage holds after setItem('user', JSON.stringify(v)): the JSON
\* text of an account, '{}' for Object.prototype, and the text 'undefined' for a
\* function, which JSON.stringify turns into undefined.
stringifyUser(v) ==
  CASE v.kind = "account" -> [json |-> "record", value |-> v]
    [] v.kind = "function" -> [json |-> "undefined", value |-> NonAccount("function")]
    [] OTHER -> [json |-> "record", value |-> NonAccount("object")]

\* JSON.parse raises on the text 'undefined'.
parseRaises(item) == item.json = "undefined"

parseUser(item) == item.value

(***************************************************************************)
(* The Reports page: the report list, its filters and Generate Brief.      *)
(***************************************************************************)
\* mockReports, id '1'.
mockReport1 ==
  [ title |->
      <<"C", "o", "n", "s", "t", "i", "t", "u", "t", "i", "o", "n", "a", "l", " ", "P", "e", "t",
        "i", "t", "i", "o", "n", " ", "A", "n", "a", "l", "y", "s", "i", "s", ":", " ", "R", "i",
        "g", "h", "t", " ", "t", "o", " ", "F", "a", "i", "r", " ", "H", "e", "a", "r", "i", "n",
        "g">>,
    type |-> "case-brief",
    status |-> "published",
    summary |->
      <<"A", "n", "a", "l", "y", "s", "i", "s", " ", "o", "f", " ", "c", "o", "n", "s", "t", "i",
        "t", "u", "t", "i", "o", "n", "a", "l", " ", "p", "r", "o", "v", "i", "s", "i", "o", "n",
        "s", " ", "o", "n", " ", "f", "a", "i", "r", " ", "h", "e", "a", "r", "i", "n", "g", " ",
        "u", "n", "d", "e", "r", " ", "A", "r", "t", "i", "c", "l", "e", " ", "5", "0", " ", "o",
        "f", " ", "t", "h", "e", " ", "C", "o", "n", "s", "t", "i", "t", "u", "t", "i", "o", "n",
        " ", "o", "f", " ", "K", "e", "n", "y", "a", ".">>,
    tags |->
      << <<"C", "o", "n", "s", "t", "i", "t", "u", "t", "i", "o", "n", "a", "l">>,
         <<"F", "a", "i", "r", " ", "H", "e", "a", "r", "i", "n", "g">>,
         <<"A", "r", "t", "i", "c", "l", "e", " ", "5", "0">>,
         <<"S", "u", "p", "r", "e", "m", "e", " ", "C", "o", "u", "r", "t">> >> ]

\* mockReports, id '2'.
mockReport2 ==
  [ title |->
      <<"L", "a", "n", "d", " ", "S", "u", "c", "c", "e", "s", "s", "i", "o", "n", " ", "R", "i",
        "g", "h", "t", "s", ":", " ", "C", "o", "m", "p", "a", "r", "a", "t", "i", "v", "e", " ",
        "A", "n", "a", "l", "y", "s", "i", "s">>,
    type |-> "comparative",
    status |-> "approved",
    summary |->
      <<"C", "o", "m", "p", "a", "r", "a", "t", "i", "v", "e", " ", "s", "t", "u", "d", "y", " ",
        "o", "f", " ", "l", "a", "n", "d", " ", "s", "u", "c", "c", "e", "s", "s", "i", "o", "n",
        " ", "r", "i", "g", "h", "t", "s", " ", "a", "c", "r", "o", "s", "s", " ", "E", "a", "s",
        "t", " ", "A", "f", "r", "i", "c", "a", "n", " ", "j", "u", "r", "i", "s", "d", "i", "c",
        "t", "i", "o", "n", "s", ".">>,
    tags |->
      << <<"L", "a", "n", "d", " ", "L", "a", "w">>,
         <<"S", "u", "c", "c", "e", "s", "s", "i", "o", "n">>,
         <<"C", "o", "m", "p", "a", "r", "a", "t", "i", "v", "e">>,
         <<"E", "A", "C">> >> ]

\* mockReports, id '3'.
mockReport3 ==
  [ title |->
      <<"E", "m", "p", "l", "o", "y", "m", "e", "n", "t", " ", "L", "a", "w", ":", " ", "U", "n",
        "f", "a", "i", "r", " ", "D", "i", "s", "m", "i", "s", "s", "a", "l", " ", "P", "r", "e",
        "c", "e", "d", "e", "n", "t", "s">>,
    type |-> "research-memo",
    status |-> "review",
    summary |->
      <<"R", "e", "s", "e", "a", "r", "c", "h", " ", "m", "e", "m", "o", "r", "a", "n", "d", "u",
        "m", " ", "o", "n", " ", "u", "n", "f", "a", "i", "r", " ", "d", "i", "s", "m", "i", "s",
        "s", "a", "l", " ", "c", "a", "s", "e", " ", "l", "a", "w", " ", "a", "n", "d", " ", "e",
        "v", "o", "l", "v", "i", "n", "g", " ", "j", "u", "d", "i", "c", "i", "a", "l", " ", "i",
        "n", "t", "e", "r", "p", "r", "e", "t", "a", "t", "i", "o", "n", ".">>,
    tags |->
      << <<"E", "m", "p", "l", "o", "y", "m", "e", "n", "t">>,
         <<"D", "i", "s", "m", "i", "s", "s", "a", "l">>,
         <<"L", "a", "b", "o", "u", "r", " ", "L", "a", "w">>,
         <<"E", "L", "R", "C">> >> ]

\* mockReports, id '4'.
mockReport4 ==
  [ title |->
      <<"C", "r", "i", "m", "i", "n", "a", "l", " ", "P", "r", "o", "c", "e", "d", "u", "r", "e",
        ":", " ", "B", "a", "i", "l", " ", "A", "p", "p", "l", "i", "c", "a", "t", "i", "o", "n",
        " ", "G", "u", "i", "d", "e", "l", "i", "n", "e", "s">>,
    type |-> "legal-opinion",
    status |-> "draft",
    summary |->
      <<"O", "p", "i", "n", "i", "o", "n", " ", "o", "n", " ", "b", "a", "i", "l", " ", "a", "p",
        "p", "l", "i", "c", "a", "t", "i", "o", "n", " ", "p", "r", "o", "c", "e", "d", "u", "r",
        "e", "s", " ", "a", "n", "d", " ", "f", "a", "c", "t", "o", "r", "s", " ", "c", "o", "n",
        "s", "i", "d", "e", "r", "e", "d", " ", "b", "y", " ", "c", "o", "u", "r", "t", "s", ".">>,
    tags |->
      << <<"C", "r", "i", "m", "i", "n", "a", "l">>,
         <<"B", "a", "i", "l">>,
         <<"P", "r", "o", "c", "e", "d", "u", "r", "e">>,
         <<"H", "i", "g", "h", " ", "C", "o", "u", "r", "t">> >> ]

\* new Date().toLocaleDateString() on the day the brief is generated.
LocaleDate == <<"1", "/", "1", "5", "/", "2", "0", "2", "4">>

\* newReport of generateReport.
newReport ==
  [ title |->
      <<"A", "I", " ", "L", "e", "g", "a", "l", " ", "A", "n", "a", "l", "y", "s", "i", "s", " ",
        "-", " ">> \o LocaleDate,
    type |-> "case-brief",
    status |-> "draft",
    summary |->
      <<"A", "I", "-", "g", "e", "n", "e", "r", "a", "t", "e", "d", " ", "l", "e", "g", "a", "l",
        " ", "a", "n", "a", "l", "y", "s", "i", "s", " ", "b", "a", "s", "e", "d", " ", "o", "n",
        " ", "c", "u", "r", "r", "e", "n", "t", " ", "c", "a", "s", "e", " ", "l", "a", "w", " ",
        "a", "n", "d", " ", "i", "n", "d", "e", "x", "e", "d", " ", "d", "o", "c", "u", "m", "e",
        "n", "t", "s", ".">>,
    tags |->
      << <<"A", "I", " ", "G", "e", "n", "e", "r", "a", "t", "e", "d">>,
         <<"L", "e", "g", "a", "l", " ", "A", "n", "a", "l", "y", "s", "i", "s">>,
         <<"D", "r", "a", "f", "t">> >> ]

\* The ids of mockReports ('1' to '4'), in their order.
mockReports == <<1, 2, 3, 4>>

\* The id of the n-th generated report: Date.now().toString(), here a number
\* past the mock ids that differs from one brief to the next.
generatedId(n) == Len(mockReports) + n

\* The report with a given id: the lists of the model hold ids.
Report(id) ==
  CASE id = mockReports[1] -> mockReport1
    [] id = mockReports[2] -> mockReport2
    [] id = mockReports[3] -> mockReport3
    [] id = mockReports[4] -> mockReport4
    [] OTHER -> newReport

\* s.includes(t)
includes(s, t) == indexOf(s, t) # 0

\* A search that compares without lower-casing.
matchesSearch_CaseSensitive(report, term) ==
  \/ includes(report.title, term)
  \/ includes(report.summary, term)
  \/ \E k \in 1..Len(report.tags) : includes(report.tags[k], term)

\* The predicate of the search filter.
matchesSearch(report, term) ==
  \/ includes(toLowerCase(report.title), toLowerCase(term))
  \/ includes(toLowerCase(report.summary), toLowerCase(term))
  \/ \E k \in 1..Len(report.tags) : includes(toLowerCase(report.tags[k]), toLowerCase(term))

RECURSIVE filterBySearch(_, _)
filterBySearch(ids, term) ==
  IF ids = <<>> THEN <<>>
  ELSE (IF matchesSearch(Report(Head(ids)), term) THEN <<Head(ids)>> ELSE <<>>)
         \o filterBySearch(Tail(ids), term)

RECURSIVE filterByType(_, _)
filterByType(ids, type) ==
  IF ids = <<>> THEN <<>>
  ELSE (IF Report(Head(ids)).type = type THEN <<Head(ids)>> ELSE <<>>)
         \o filterByType(Tail(ids), type)

RECURSIVE filterByStatus(_, _)
filterByStatus(ids, status) ==
  IF ids = <<>> THEN <<>>
  ELSE (IF Report(Head(ids)).status = status THEN <<Head(ids)>> ELSE <<>>)
         \o filterByStatus(Tail(ids), status)

\* The body of the filter effect: what it hands to setFilteredReports.
filtered(ids, term, type, status) ==
  LET bySearch == IF term # <<>> THEN filterBySearch(ids, term) ELSE ids
      byType == IF type # "all" THEN filterByType(bySearch, type) ELSE bySearch
  IN IF status # "all" THEN filterByStatus(byType, status) ELSE byType

(***************************************************************************)
(* State.                                                                  *)
(***************************************************************************)
VARIABLES
  REACT_APP_API_BASE_URL,  \* process.env.REACT_APP_API_BASE_URL ("" when unset)
  PUBLIC_URL,              \* process.env.PUBLIC_URL ("" when unset)
  hasWindow,               \* FALSE: no window/document, reading them raises
  pathname,                \* window.location.pathname
  baseTag,                 \* document.querySelector('base')
  loaded,                  \* utils/api.ts has been evaluated
  API_BASE,                \* the exported constant
  loadRaised,              \* evaluating utils/api.ts raised
  textKind,                \* the kind of the argument of normalizeResponseText
  text,                    \* the argument, when it is a string
  normalized,              \* the results of applying it once, then twice
  normRaised,              \* normalizeResponseText raised
  input,                   \* AskAI: the question being typed
  messages,                \* AskAI: the message list
  isLoading,               \* AskAI: a query is awaited
  inflight,                \* AskAI: the queries sent and not yet answered
  backendAnswers,          \* the answers the backend may give
  toastErrors,             \* the number of error notifications shown
  sent,                    \* the number of queries sent so far
  lastUrl,                 \* the URL of the latest backend request, if any
  useWebSearch,            \* AskAI: the 'Include Web Sources' box
  role,                    \* AskAI: the role selected ("" for the general user)
  presetId,                \* AskAI: the analysis preset selected ("" before the presets come)
  usePreset,               \* AskAI: the 'Apply analysis preset' box
  promptsAwaited,          \* AskAI: the request for the presets is awaited
  user,                    \* AuthProvider: the signed-in user, if any
  authIsLoading,           \* AuthProvider: the stored session has not been read yet
  storedUser,              \* localStorage's item 'user', if any
  sessionRaised,           \* reading the stored session raised
  loginCalls,              \* the number of calls of login so far
  lastLogin,               \* the latest call of login and whether it threw
  documents,               \* Uploads: the document list, newest first
  isUploading,             \* Uploads: an upload is awaited
  showMetadataForm,        \* Uploads: the metadata form is shown
  currentFile,             \* Uploads: the file the form is about, if any
  uploading,               \* Uploads: the id of the document whose upload is awaited, if any
  uploadsStarted,          \* Uploads: the number of uploads started so far
  dropped,                 \* the accepted files dropped on the page so far
  withdrawn,               \* those of them the user has given up or removed
  reports,                 \* Reports: the ids of the reports, newest first
  filteredReports,         \* Reports: the ids of the reports displayed
  searchTerm,              \* Reports: the search box
  filterType,              \* Reports: the type selection
  filterStatus,            \* Reports: the status selection
  reportsLoading,          \* Reports: isLoading, true until the mount effect has run
  filterEffectDue,         \* Reports: a dependency of the filter effect has changed
  briefs,                  \* Reports: the number of briefs generated so far
  pc,                      \* deploy script: the step to run next
  DEPLOY_PATH,             \* deploy script: the deployment path, once found
  deployDir,               \* the entries of the deployment directory, if it exists
  buildDir,                \* the entries of frontend/build, if it exists
  backupDir,               \* the entries of the backup directory, if one was made
  exitStatus,              \* deploy script: its exit status, once it has ended
  originalDir,             \* the deployment directory as the run found it
  removed,                 \* the entries the cleaning step has deleted
  overwritten              \* the entries the copy step has replaced

envVars == <<REACT_APP_API_BASE_URL, PUBLIC_URL, hasWindow, baseTag>>

apiVars == <<loaded, API_BASE, loadRaised>>

resolverVars == <<envVars, pathname, apiVars>>

normVars == <<textKind, text, normalized, normRaised>>

controlVars == <<useWebSearch, role, presetId, usePreset, promptsAwaited>>

chatVars ==
  <<input, messages, isLoading, inflight, backendAnswers, toastErrors, sent, lastUrl,
    controlVars>>

authVars == <<user, authIsLoading, storedUser, sessionRaised, loginCalls, lastLogin>>

uploadVars ==
  <<documents, isUploading, showMetadataForm, currentFile, uploading, uploadsStarted, dropped,
    withdrawn>>

reportVars ==
  <<reports, filteredReports, searchTerm, filterType, filterStatus, reportsLoading,
    filterEffectDue, briefs>>

deployVars ==
  <<pc, DEPLOY_PATH, deployDir, buildDir, backupDir, exitStatus, originalDir, removed,
    overwritten>>

sideVars == <<authVars, uploadVars, reportVars, deployVars>>

coreVars == <<resolverVars, normVars, chatVars>>

notAuthVars == <<uploadVars, reportVars, deployVars>>

notUploadVars == <<authVars, reportVars, deployVars>>

notReportVars == <<authVars, uploadVars, deployVars>>

notDeployVars == <<authVars, uploadVars, reportVars>>

vars == <<resolverVars, normVars, chatVars, sideVars>>

\* The AuthProvider as constructed, in a browser that stores no session.
AuthIdle ==
  /\ user = Undefined
  /\ authIsLoading = TRUE
  /\ storedUser = Undefined
  /\ sessionRaised = FALSE
  /\ loginCalls = 0
  /\ lastLogin = Undefined

\* The Uploads page as mounted.
UploadsIdle ==
  /\ documents = <<>>
  /\ isUploading = FALSE
  /\ showMetadataForm = FALSE
  /\ currentFile = Undefined
  /\ uploading = Undefined
  /\ uploadsStarted = 0
  /\ dropped = {}
  /\ withdrawn = {}

\* The Reports page as constructed, before its effects have run.
ReportsIdle ==
  /\ reports = <<>>
  /\ filteredReports = <<>>
  /\ searchTerm = <<>>
  /\ filterType = "all"
  /\ filterStatus = "all"
  /\ reportsLoading = TRUE
  /\ filterEffectDue = FALSE
  /\ briefs = 0

\* The deploy script is not run, on a host with nothing deployed or built.
DeployIdle ==
  /\ pc = "idle"
  /\ DEPLOY_PATH = Undefined
  /\ deployDir = Undefined
  /\ buildDir = Undefined
  /\ backupDir = Undefined
  /\ exitStatus = Undefined
  /\ originalDir = Undefined
  /\ removed = {}
  /\ overwritten = {}

\* The pages and scripts other than the one at work.
SideIdle == AuthIdle /\ UploadsIdle /\ ReportsIdle /\ DeployIdle

\* The normalizer has no argument at hand.
NormIdle == textKind = "none" /\ text = <<>> /\ normalized = <<>> /\ normRaised = FALSE

\* The Ask AI page as mounted: no message, nothing typed, nothing awaited.
ControlsMounted ==
  /\ useWebSearch = FALSE
  /\ role = "Advocate"
  /\ presetId = ""
  /\ usePreset = TRUE
  /\ promptsAwaited = FALSE

ChatMounted ==
  /\ input = <<>>
  /\ messages = <<>>
  /\ isLoading = FALSE
  /\ inflight = <<>>
  /\ toastErrors = 0
  /\ sent = 0
  /\ lastUrl = Undefined
  /\ ControlsMounted

ChatIdle == ChatMounted /\ backendAnswers = {}

(***************************************************************************)
(* Inputs of the resolver.                                                 *)
(***************************************************************************)
PatriotAI == <<"P","a","t","r","i","o","t","A","I">>

Host == <<"h","t","t","p","s",":","/","/","h">>

UrlFrags == {Host, ApiSuffix, Slash, <<" ">>, <<"x">>}

PublicFrags == {Slash, Slash \o PatriotAI, <<"x">>}

PathFrags ==
  { Slash, Slash \o PatriotAI, <<"/","l","o","g","i","n">>, <<"/","A","s","k","-","a","i">>,
    Slash \o IndexHtml, <<"x">> }

OverrideUrls == Concats(UrlFrags, MaxUrlFrags)

PublicUrls == Concats(PublicFrags, MaxUrlFrags)

PagePaths == Concats(PathFrags, MaxPathFrags)

BaseTags ==
  { NoBaseTag, BaseTagNoHref, BaseTag(<<>>), BaseTag(Slash),
    BaseTag(Slash \o PatriotAI \o Slash), BaseTag(Slash \o PatriotAI),
    BaseTag(PatriotAI \o Slash), BaseTag(Slash \o Slash), NoDocument }

\* The paths of the router's routes: '/login', and under '/' the index route,
\* 'ask-ai', 'uploads' and 'reports'.
RouterPaths ==
  { <<"/","l","o","g","i","n">>, Slash, <<"/","a","s","k","-","a","i">>,
    <<"/","u","p","l","o","a","d","s">>, <<"/","r","e","p","o","r","t","s">> }

\* The paths of the sidebar's menu items.
menuItems ==
  { Slash, <<"/","a","s","k","-","a","i">>, <<"/","u","p","l","o","a","d","s">>,
    <<"/","r","e","p","o","r","t","s">>, <<"/","e","x","p","l","o","r","e","r">> }

\* A few values of each input, used while another input ranges over all of its values.
FewUrls == {<<>>, Host \o Slash}

FewPublicUrls == {<<>>, Slash, Slash \o PatriotAI \o Slash}

FewPaths == {Slash, Slash \o PatriotAI \o <<"/","l","o","g","i","n">>, <<"/","l","o","g","i","n">>}

FewBaseTags == {NoBaseTag, BaseTag(Slash \o PatriotAI \o Slash)}

\* The module has not been evaluated yet.
Unloaded == loaded = FALSE /\ API_BASE = <<>> /\ loadRaised = FALSE

InitResolve ==
  /\ \/ /\ REACT_APP_API_BASE_URL \in OverrideUrls
        /\ PUBLIC_URL \in FewPublicUrls
        /\ hasWindow = TRUE
        /\ pathname \in FewPaths
        /\ baseTag \in FewBaseTags
     \/ /\ REACT_APP_API_BASE_URL = <<>>
        /\ PUBLIC_URL \in PublicUrls
        /\ hasWindow = TRUE
        /\ pathname \in FewPaths
        /\ baseTag \in FewBaseTags
     \/ /\ REACT_APP_API_BASE_URL = <<>>
        /\ PUBLIC_URL = <<>>
        /\ hasWindow = TRUE
        /\ pathname \in PagePaths
        /\ baseTag \in BaseTags
     \/ /\ REACT_APP_API_BASE_URL \in FewUrls
        /\ PUBLIC_URL \in FewPublicUrls
        /\ hasWindow = FALSE
        /\ pathname = <<>>
        /\ baseTag = NoBaseTag
     \/ /\ REACT_APP_API_BASE_URL = <<>>
        /\ PUBLIC_URL \in {<<>>, Slash}
        /\ hasWindow = TRUE
        /\ pathname \in RouterPaths \cup menuItems
        /\ baseTag \in BaseTags
  /\ Unloaded
  /\ NormIdle
  /\ ChatIdle
  /\ SideIdle

(***************************************************************************)
(* export const API_BASE = getApiBaseUrl(): evaluated once, when the       *)
(* module is first imported.                                               *)
(***************************************************************************)
LoadModule ==
  /\ ~loaded
  /\ ~loadRaised
  /\ IF getApiBaseUrlRaises(REACT_APP_API_BASE_URL, PUBLIC_URL, hasWindow, pathname, baseTag)
     THEN loadRaised' = TRUE /\ UNCHANGED <<loaded, API_BASE>>
     ELSE /\ loaded' = TRUE
          /\ API_BASE' = getApiBaseUrl(REACT_APP_API_BASE_URL, PUBLIC_URL, hasWindow,
                                       pathname, baseTag)
          /\ UNCHANGED loadRaised
  /\ UNCHANGED <<envVars, pathname, normVars, sideVars, chatVars>>

NextResolve == LoadModule

SpecResolve == InitResolve /\ [][NextResolve]_vars

(***************************************************************************)
(* The normalizer applied to a text, and to its own result.                *)
(***************************************************************************)
\* A deployment at the root of the site, with utils/api.ts evaluated.
RootLoaded ==
  /\ REACT_APP_API_BASE_URL = <<>>
  /\ PUBLIC_URL = <<>>
  /\ hasWindow = TRUE
  /\ pathname = Slash
  /\ baseTag = NoBaseTag
  /\ loaded = TRUE
  /\ API_BASE = getApiBaseUrl(<<>>, <<>>, TRUE, Slash, NoBaseTag)
  /\ loadRaised = FALSE

TextFrags ==
  { ContentMarker, <<"C","O","N","T","E","N","T","=">>, Quote, <<" ">>, <<"\n">>,
    Backslash, <<"n">>, <<"t">>, <<"a">> }

Texts == Concats(TextFrags, MaxTextFrags)

InitNormalize ==
  /\ RootLoaded
  /\ \/ textKind = "string" /\ text \in Texts
     \/ textKind \in ArgKinds \ {"string"} /\ text = <<>>
  /\ normalized = <<>>
  /\ normRaised = FALSE
  /\ ChatIdle
  /\ SideIdle

\* normalizeResponseText(text) called on the argument at hand.
Normalize ==
  /\ textKind \in ArgKinds
  /\ Len(normalized) = 0
  /\ ~normRaised
  /\ IF normalizeRaises(textKind)
     THEN normRaised' = TRUE /\ UNCHANGED normalized
     ELSE /\ normalized' = <<normalizeResponseText(textOrEmpty(textKind, text))>>
          /\ UNCHANGED normRaised
  /\ UNCHANGED <<resolverVars, sideVars, textKind, text, chatVars>>

\* normalizeResponseText called on its own result, a string.
NormalizeAgain ==
  /\ Len(normalized) = 1
  /\ normalized' = Append(normalized, normalizeResponseText(normalized[1]))
  /\ UNCHANGED <<resolverVars, sideVars, textKind, text, normRaised, chatVars>>

NextNormalize == Normalize \/ NormalizeAgain

SpecNormalize == InitNormalize /\ [][NextNormalize]_vars

(***************************************************************************)
(* pages/AskAI.tsx: the chat.                                              *)
(***************************************************************************)
\* The base imported from utils/api, as the page's requests use it.
importedApiBase_Reevaluated ==
  getApiBaseUrl(REACT_APP_API_BASE_URL, PUBLIC_URL, hasWindow, pathname, baseTag)

\* import { API_BASE } from '../utils/api'
importedApiBase == API_BASE

Question == <<"q">>

\* What the user may have in the input box.
Inputs == {<<>>, <<" ">>, Question}

UserMessage(content) ==
  [isUser |-> TRUE, content |-> content, systemGuidance |-> Undefined]

AiMessage(parts) ==
  [isUser |-> FALSE, content |-> parts.mainContent, systemGuidance |-> parts.systemGuidance]

\* s without its i-th element.
removeAt(s, i) == SubSeq(s, 1, i - 1) \o SubSeq(s, i + 1, Len(s))

\* A POST to /query that is awaited, with the query of its body, and whether
\* the page that sent it is still the one mounted.
QueryRequest(query) == [query |-> query, mounted |-> TRUE]

\* onChange of the input box.
setInput(v) ==
  /\ loaded
  /\ input' = v
  /\ UNCHANGED <<resolverVars, normVars, sideVars, messages, isLoading, inflight,
                 backendAnswers, toastErrors, sent, lastUrl, controlVars>>

\* A handleSubmit that sends the query even while another is awaited.
handleSubmit_NoLoadingGuard ==
  /\ loaded
  /\ sent < MaxQueries
  /\ IF trim(input) = <<>>
     THEN UNCHANGED chatVars
     ELSE /\ messages' = Append(messages, UserMessage(input))
          /\ input' = <<>>
          /\ isLoading' = TRUE
          /\ inflight' = Append(inflight, QueryRequest(input))
          /\ lastUrl' = Some(importedApiBase \o QueryEndpoint)
          /\ sent' = sent + 1
          /\ UNCHANGED <<backendAnswers, toastErrors, controlVars>>
  /\ UNCHANGED <<resolverVars, normVars, sideVars>>

\* handleSubmit up to its await: nothing on a blank input or while loading.
handleSubmit ==
  /\ loaded
  /\ sent < MaxQueries
  /\ IF trim(input) = <<>> \/ isLoading
     THEN UNCHANGED chatVars
     ELSE /\ messages' = Append(messages, UserMessage(input))
          /\ input' = <<>>
          /\ isLoading' = TRUE
          /\ inflight' = Append(inflight, QueryRequest(input))
          /\ lastUrl' = Some(importedApiBase \o QueryEndpoint)
          /\ sent' = sent + 1
          /\ UNCHANGED <<backendAnswers, toastErrors, controlVars>>
  /\ UNCHANGED <<resolverVars, normVars, sideVars>>

\* handleSubmit after its await, the i-th query answered with data.answer = answer:
\* a truthy answer that is no string raises in normalizeResponseText and is caught.
\* The setMessages and setIsLoading of a page that has been unmounted since
\* change nothing; its toast is shown all the same.
queryAnswered(i, answer) ==
  /\ i \in 1..Len(inflight)
  /\ answer \in backendAnswers
  /\ IF answer.kind = "other"
     THEN /\ toastErrors' = toastErrors + 1
          /\ UNCHANGED messages
     ELSE /\ messages' = IF inflight[i].mounted
                         THEN Append(messages, AiMessage(splitAnswer(answer.str)))
                         ELSE messages
          /\ UNCHANGED toastErrors
  /\ isLoading' = IF inflight[i].mounted THEN FALSE ELSE isLoading
  /\ inflight' = removeAt(inflight, i)
  /\ UNCHANGED <<resolverVars, normVars, sideVars, input, backendAnswers, sent, lastUrl,
                 controlVars>>

\* A rejection handled without the finally block: the loading flag is left set.
queryFailed_NoFinally(i) ==
  /\ i \in 1..Len(inflight)
  /\ toastErrors' = toastErrors + 1
  /\ inflight' = removeAt(inflight, i)
  /\ UNCHANGED <<resolverVars, normVars, sideVars, input, messages, isLoading, backendAnswers,
                 sent, lastUrl, controlVars>>

\* handleSubmit after its await, the i-th query rejected: catch and finally
\* (on an unmounted page, the toast alone).
queryFailed(i) ==
  /\ i \in 1..Len(inflight)
  /\ toastErrors' = toastErrors + 1
  /\ isLoading' = IF inflight[i].mounted THEN FALSE ELSE isLoading
  /\ inflight' = removeAt(inflight, i)
  /\ UNCHANGED <<resolverVars, normVars, sideVars, input, messages, backendAnswers, sent,
                 lastUrl, controlVars>>

clearChat ==
  /\ loaded
  /\ messages' = <<>>
  /\ UNCHANGED <<resolverVars, normVars, sideVars, input, isLoading, inflight, backendAnswers,
                 toastErrors, sent, lastUrl, controlVars>>

(***************************************************************************)
(* One question asked, the backend answering with a given raw answer.      *)
(***************************************************************************)
AnswerFrags ==
  { <<"a">>, Delimiter, <<" ">>, Quote, ContentMarker \o Quote,
    <<"a"," ">> \o Delimiter \o <<" ","s","y","s","t","e","m"," ","G","u","i","d","a","n","c","e"," ",
          "a","p","p","l","i","e","d",":"," ">> }

RawAnswers == Concats(AnswerFrags, MaxAnswerFrags)

InitSplit ==
  /\ RootLoaded
  /\ NormIdle
  /\ SideIdle
  /\ input = Question
  /\ messages = <<>>
  /\ isLoading = FALSE
  /\ inflight = <<>>
  /\ toastErrors = 0
  /\ sent = 0
  /\ lastUrl = Undefined
  /\ ControlsMounted
  /\ \E raw \in RawAnswers : backendAnswers = {StringAnswer(raw)}

NextSplit ==
  \/ handleSubmit
  \/ \E i \in 1..Len(inflight) : \E answer \in backendAnswers : queryAnswered(i, answer)
  \/ \E i \in 1..Len(inflight) : queryFailed(i)
  \/ clearChat

SpecSplit == InitSplit /\ [][NextSplit]_vars

(***************************************************************************)
(* The application from its load on: navigation and the Ask AI page.       *)
(***************************************************************************)
\* const BASENAME = process.env.PUBLIC_URL || '/'
BASENAME == IF PUBLIC_URL # <<>> THEN PUBLIC_URL ELSE Slash

\* The paths the sidebar links to and the pages navigate to.
MenuPaths ==
  { Slash, <<"/","a","s","k","-","a","i">>, <<"/","u","p","l","o","a","d","s">>,
    <<"/","r","e","p","o","r","t","s">>, <<"/","e","x","p","l","o","r","e","r">>,
    <<"/","l","o","g","i","n">> }

\* A click on a NavLink or a navigate(to): the router pushes basename + to.
Navigate(to) ==
  /\ loaded
  /\ hasWindow
  /\ pathname' = stripTrailing(BASENAME, {"/"}) \o to
  /\ UNCHANGED <<envVars, apiVars, normVars, sideVars, chatVars>>

\* The effect run when the Ask AI page mounts: it requests the prompt presets.
fetchPrompts ==
  /\ loaded
  /\ lastUrl' = Some(importedApiBase \o PromptsEndpoint)
  /\ promptsAwaited' = TRUE
  /\ UNCHANGED <<resolverVars, normVars, sideVars, input, messages, isLoading, inflight,
                 backendAnswers, toastErrors, sent, useWebSearch, role, presetId, usePreset>>

AppAnswers == {StringAnswer(<<"a">>), NonStringAnswer}

InitApp ==
  /\ REACT_APP_API_BASE_URL \in FewUrls
  /\ PUBLIC_URL \in FewPublicUrls
  /\ \/ hasWindow = TRUE /\ pathname \in FewPaths /\ baseTag \in FewBaseTags
     \/ hasWindow = FALSE /\ pathname = <<>> /\ baseTag = NoBaseTag
  /\ Unloaded
  /\ NormIdle
  /\ SideIdle
  /\ ChatMounted
  /\ backendAnswers = AppAnswers

NextApp ==
  \/ LoadModule
  \/ \E to \in MenuPaths : Navigate(to)
  \/ fetchPrompts
  \/ \E v \in Inputs : setInput(v)
  \/ handleSubmit
  \/ \E i \in 1..Len(inflight) : \E answer \in backendAnswers : queryAnswered(i, answer)
  \/ \E i \in 1..Len(inflight) : queryFailed(i)
  \/ clearChat

SpecApp == InitApp /\ [][NextApp]_vars

(***************************************************************************)
(* The Ask AI page with its controls, left for another page and revisited. *)
(***************************************************************************)
LEGAL_ROLES ==
  { "Law Student", "Legal Researcher", "Paralegal", "Advocate", "State Counsel",
    "Magistrate", "Judge", "Journalist / Public" }

\* The roles the user selects here: the general user and one of LEGAL_ROLES.
RolesTried == {"", "Judge"}

\* The ids of the active presets the backend may serve, in its order.
ServerPromptLists == {<<>>, <<"legal-opinion", "case-summary">>}

\* The id of the first of the presets built in for when the request fails.
fallbackPresetId == "case-summary"

PresetIds == {"case-summary", "legal-opinion"}

AskAiPath == <<"/","a","s","k","-","a","i">>

\* onChange of the 'Include Web Sources' box.
setUseWebSearch(v) ==
  /\ loaded
  /\ useWebSearch' = v
  /\ UNCHANGED <<resolverVars, normVars, sideVars, input, messages, isLoading, inflight,
                 backendAnswers, toastErrors, sent, lastUrl, role, presetId, usePreset,
                 promptsAwaited>>

\* onChange of the role selection.
setRole(v) ==
  /\ loaded
  /\ v \in LEGAL_ROLES \cup {""}
  /\ role' = v
  /\ UNCHANGED <<resolverVars, normVars, sideVars, input, messages, isLoading, inflight,
                 backendAnswers, toastErrors, sent, lastUrl, useWebSearch, presetId, usePreset,
                 promptsAwaited>>

\* onChange of the preset selection, whose options are the presets received.
setPresetId(v) ==
  /\ loaded
  /\ presetId # ""
  /\ presetId' = v
  /\ UNCHANGED <<resolverVars, normVars, sideVars, input, messages, isLoading, inflight,
                 backendAnswers, toastErrors, sent, lastUrl, useWebSearch, role, usePreset,
                 promptsAwaited>>

\* onChange of the 'Apply analysis preset' box.
setUsePreset(v) ==
  /\ loaded
  /\ usePreset' = v
  /\ UNCHANGED <<resolverVars, normVars, sideVars, input, messages, isLoading, inflight,
                 backendAnswers, toastErrors, sent, lastUrl, useWebSearch, role, presetId,
                 promptsAwaited>>

\* The mount effect after its await: the first preset served is selected, or
\* the first built-in one when the request failed.
promptsSettled(ok, list) ==
  /\ promptsAwaited
  /\ promptsAwaited' = FALSE
  /\ presetId' = IF ~ok THEN fallbackPresetId
                 ELSE IF Len(list) > 0 THEN list[1]
                 ELSE presetId
  /\ UNCHANGED <<resolverVars, normVars, sideVars, input, messages, isLoading, inflight,
                 backendAnswers, toastErrors, sent, lastUrl, useWebSearch, role, usePreset>>

\* The user goes to another page and comes back: the router unmounts the page
\* and mounts a new one, whose state is the initial one and whose mount effect
\* requests the presets; the requests of the old page stay awaited.
revisitAskAI ==
  /\ loaded
  /\ hasWindow
  /\ pathname' = stripTrailing(BASENAME, {"/"}) \o AskAiPath
  /\ input' = <<>>
  /\ messages' = <<>>
  /\ isLoading' = FALSE
  /\ inflight' = [k \in 1..Len(inflight) |-> [inflight[k] EXCEPT !.mounted = FALSE]]
  /\ useWebSearch' = FALSE
  /\ role' = "Advocate"
  /\ presetId' = ""
  /\ usePreset' = TRUE
  /\ promptsAwaited' = TRUE
  /\ lastUrl' = Some(importedApiBase \o PromptsEndpoint)
  /\ UNCHANGED <<envVars, apiVars, normVars, sideVars, backendAnswers, toastErrors, sent>>

InitChat ==
  /\ REACT_APP_API_BASE_URL = <<>>
  /\ PUBLIC_URL = <<>>
  /\ hasWindow = TRUE
  /\ pathname = AskAiPath
  /\ baseTag = NoBaseTag
  /\ loaded = TRUE
  /\ API_BASE = ApiSuffix
  /\ loadRaised = FALSE
  /\ NormIdle
  /\ SideIdle
  /\ ChatMounted
  /\ backendAnswers = AppAnswers

NextChat ==
  \/ \E v \in Inputs : setInput(v)
  \/ \E v \in BOOLEAN : setUseWebSearch(v)
  \/ \E v \in RolesTried : setRole(v)
  \/ \E v \in PresetIds : setPresetId(v)
  \/ \E v \in BOOLEAN : setUsePreset(v)
  \/ fetchPrompts
  \/ \E list \in ServerPromptLists : promptsSettled(TRUE, list)
  \/ promptsSettled(FALSE, <<>>)
  \/ handleSubmit
  \/ \E i \in 1..Len(inflight) : \E answer \in backendAnswers : queryAnswered(i, answer)
  \/ \E i \in 1..Len(inflight) : queryFailed(i)
  \/ clearChat
  \/ revisitAskAI

SpecChat == InitChat /\ [][NextChat]_vars

(***************************************************************************)
(* Properties of the resolver.                                             *)
(***************************************************************************)
Login == <<"l","o","g","i","n">>

AskAiMixed == <<"A","s","k","-","a","i">>

\* s without its last four characters (the '/api' of a resolved base).
beforeApi(s) == SubSeq(s, 1, Len(s) - 4)

\* u trimmed, then without one trailing slash.
cleanedOverride(u) ==
  LET t == trim(u) IN IF t # <<>> /\ t[Len(t)] = "/" THEN SubSeq(t, 1, Len(t) - 1) ELSE t

OverrideSet == loaded /\ REACT_APP_API_BASE_URL # <<>>

\* C1 as stated: with an override u set, API_BASE is u trimmed and without its
\* trailing slash, with '/api' appended once and never duplicated: it ends in
\* '/api', ends in '/api/api' only if u did, and has no '/' right before the
\* final '/api'.
C1_AsStated ==
  OverrideSet =>
    LET u == REACT_APP_API_BASE_URL
        c == cleanedOverride(u)
    IN /\ API_BASE \in {c, c \o ApiSuffix}
       /\ endsWith(API_BASE, ApiSuffix)
       /\ endsWith(API_BASE, ApiSuffix \o ApiSuffix) => endsWith(u, ApiSuffix \o ApiSuffix)
       /\ ~endsWith(API_BASE, Slash \o ApiSuffix)

\* C1 amended: with an override u set, whatever the page path and PUBLIC_URL,
\* API_BASE is c, or c followed by '/api' when c does not end in '/api', where c
\* is u trimmed and without one trailing slash; it ends in '/api', ends in
\* '/api/api' only if c did, and has a '/' right before the final '/api' only if
\* c ends in '/' or in '//api'.
C1_OverrideWins ==
  OverrideSet =>
    LET c == cleanedOverride(REACT_APP_API_BASE_URL)
    IN /\ API_BASE \in {c, c \o ApiSuffix}
       /\ (API_BASE = c) <=> endsWith(c, ApiSuffix)
       /\ endsWith(API_BASE, ApiSuffix)
       /\ endsWith(API_BASE, ApiSuffix \o ApiSuffix) => endsWith(c, ApiSuffix \o ApiSuffix)
       /\ endsWith(API_BASE, Slash \o ApiSuffix) =>
            (endsWith(c, Slash) \/ endsWith(c, Slash \o ApiSuffix))

\* An override with '/api/' already in it, next to a PUBLIC_URL that is ignored.
C1_Witness ==
  /\ loaded
  /\ REACT_APP_API_BASE_URL = Host \o ApiSuffix \o Slash
  /\ PUBLIC_URL = Slash \o PatriotAI \o Slash
  /\ API_BASE = Host \o ApiSuffix

\* Tier 3 decides: no override, and PUBLIC_URL unset or '/'.
AutoDetected ==
  loaded /\ hasWindow /\ REACT_APP_API_BASE_URL = <<>> /\ PUBLIC_URL \in {<<>>, Slash}

RECURSIVE keptSegments(_)
\* The pieces of a '/'-split other than '' and 'index.html', in order.
keptSegments(pieces) ==
  IF pieces = <<>> THEN <<>>
  ELSE IF Head(pieces) \in {<<>>, IndexHtml} THEN keptSegments(Tail(pieces))
  ELSE <<Head(pieces)>> \o keptSegments(Tail(pieces))

segmentsOf(path) == keptSegments(split(path, Slash))

\* C2: auto-detected, when the first kept segment of the page path is not a
\* known route name (compared in lower case), API_BASE is '/' + that segment, in
\* its original case, + '/api'.
C2_FirstSegmentIsBase ==
  AutoDetected =>
    LET segs == segmentsOf(pathname) IN
    (segs # <<>> /\ toLowerCase(segs[1]) \notin APP_ROUTES) =>
      API_BASE = Slash \o segs[1] \o ApiSuffix

\* '/PatriotAI/Ask-ai' resolves to '/PatriotAI/api'.
C2_Witness ==
  /\ AutoDetected
  /\ pathname = Slash \o PatriotAI \o Slash \o AskAiMixed
  /\ API_BASE = Slash \o PatriotAI \o ApiSuffix

PublicUrlSet ==
  loaded /\ REACT_APP_API_BASE_URL = <<>> /\ PUBLIC_URL \notin {<<>>, Slash}

\* C8 as stated: with PUBLIC_URL p set and not '/', API_BASE is p without any
\* trailing slash followed by '/api', so the part before '/api' never ends in
\* '/'; with p unset or '/', the result is the auto-detected one.
C8_AsStated ==
  /\ PublicUrlSet =>
       /\ API_BASE = stripTrailing(PUBLIC_URL, {"/"}) \o ApiSuffix
       /\ ~endsWith(beforeApi(API_BASE), Slash)
  /\ (loaded /\ REACT_APP_API_BASE_URL = <<>> /\ PUBLIC_URL \in {<<>>, Slash}) =>
       API_BASE = detectBasePath(hasWindow, pathname, baseTag) \o ApiSuffix

\* C8 amended: with PUBLIC_URL p set and not '/', API_BASE is p without one
\* trailing slash followed by '/api', whatever the page path; the part before
\* '/api' ends in '/' only if p ends in '//'; with p unset or '/', the result is
\* the auto-detected one.
C8_PublicUrl ==
  /\ PublicUrlSet =>
       LET p == PUBLIC_URL IN
       /\ API_BASE = (IF p[Len(p)] = "/" THEN SubSeq(p, 1, Len(p) - 1) ELSE p) \o ApiSuffix
       /\ endsWith(beforeApi(API_BASE), Slash) => endsWith(p, Slash \o Slash)
  /\ (loaded /\ REACT_APP_API_BASE_URL = <<>> /\ PUBLIC_URL \in {<<>>, Slash}) =>
       API_BASE = detectBasePath(hasWindow, pathname, baseTag) \o ApiSuffix

\* PUBLIC_URL '/PatriotAI/' on a page whose path alone would resolve to '/api'.
C8_Witness ==
  /\ PublicUrlSet
  /\ PUBLIC_URL = Slash \o PatriotAI \o Slash
  /\ pathname = Slash \o Login
  /\ API_BASE = Slash \o PatriotAI \o ApiSuffix

\* C9: auto-detected, a page path made only of slashes and 'index.html'
\* segments (the empty path and '/' among them) resolves to '/api', and every
\* page path resolves as the path made of its kept segments does.
C9_DroppedSegments ==
  AutoDetected =>
    LET segs == segmentsOf(pathname) IN
    /\ segs = <<>> => API_BASE = ApiSuffix
    /\ API_BASE = getApiBaseUrl(REACT_APP_API_BASE_URL, PUBLIC_URL, hasWindow,
                                Slash \o join(segs, Slash), baseTag)

\* '//index.html/' resolves to '/api', a base tag notwithstanding.
C9_Witness ==
  /\ AutoDetected
  /\ pathname = Slash \o Slash \o IndexHtml \o Slash
  /\ baseTag = BaseTag(Slash \o PatriotAI \o Slash)
  /\ API_BASE = ApiSuffix

\* The base tag's href counts: it is absolute and not '/'.
baseHrefCounts(b) ==
  b.tag /\ b.hasHref /\ Len(b.href) > 1 /\ b.href[1] = "/"

\* C10 as stated: auto-detected, the page path '/login' resolves to '/api'.
C10_AsStated ==
  (AutoDetected /\ pathname = Slash \o Login) => API_BASE = ApiSuffix

\* C10 amended: auto-detected, the page path '/login' resolves to '/api' unless
\* the document has a base tag whose href is absolute and not '/'; the result is
\* then that href without one trailing slash, followed by '/api'.
C10_LoginAtRoot ==
  (AutoDetected /\ pathname = Slash \o Login) =>
    IF baseHrefCounts(baseTag)
    THEN LET h == baseTag.href IN
         API_BASE = (IF h[Len(h)] = "/" THEN SubSeq(h, 1, Len(h) - 1) ELSE h) \o ApiSuffix
    ELSE API_BASE = ApiSuffix

\* '/login' with a relative base href resolves to '/api'.
C10_Witness ==
  /\ AutoDetected
  /\ pathname = Slash \o Login
  /\ baseTag = BaseTag(PatriotAI \o Slash)
  /\ API_BASE = ApiSuffix

C4_AsStated ==
  Len(normalized) = 2 => normalized[2] = normalized[1]

\* C4 amended: normalize(normalize(x)) = normalize(x) exactly when normalize(x)
\* does not begin with 'content=' (in any letter case): a nested marker, or one
\* that follows leading whitespace written as backslash-n or backslash-t, is
\* stripped by the second application.
C4_IdempotentUnlessMarker ==
  Len(normalized) = 2 =>
    (normalized[2] = normalized[1] <=> ~startsWithIgnoreCase(normalized[1], ContentMarker))

\* content='a' normalized to a, and a normalized to a.
C4_Witness ==
  /\ text = ContentMarker \o Quote \o <<"a">> \o Quote
  /\ normalized = << <<"a">>, <<"a">> >>

RECURSIVE unescaped(_)
\* s with each backslash-n and backslash-t turned into a newline and a tab, in one pass.
unescaped(s) ==
  LET Escapes == {i \in 1..(Len(s) - 1) : s[i] = "\\" /\ s[i + 1] \in {"n", "t"}} IN
  IF Escapes = {} THEN s
  ELSE LET i == CHOOSE e \in Escapes : \A f \in Escapes : e <= f IN
       SubSeq(s, 1, i - 1) \o (IF s[i + 1] = "n" THEN <<"\n">> ELSE <<"\t">>)
         \o unescaped(SubSeq(s, i + 2, Len(s)))

\* s without a leading single quote, then without a trailing one.
unquoted(s) ==
  LET a == IF s # <<>> /\ s[1] = "'" THEN Tail(s) ELSE s
  IN IF a # <<>> /\ a[Len(a)] = "'" THEN SubSeq(a, 1, Len(a) - 1) ELSE a

\* C7: a trimmed text that begins with 'content=' (in any letter case) loses the
\* marker, one quote right after it and one trailing quote; any other text is
\* only trimmed and unescaped, and keeps a trailing quote.
C7_OnlyTheWrapper ==
  Len(normalized) >= 1 =>
    LET t == trim(text) IN
    IF Len(t) >= 8 /\ toLowerCase(SubSeq(t, 1, 8)) = ContentMarker
    THEN normalized[1] = trim(unescaped(unquoted(SubSeq(t, 9, Len(t)))))
    ELSE /\ normalized[1] = trim(unescaped(t))
         /\ (t # <<>> /\ t[Len(t)] = "'") =>
               (normalized[1] # <<>> /\ normalized[1][Len(normalized[1])] = "'")

\* a, backslash, n, quote: the escape becomes a newline and the quote stays.
C7_Witness ==
  /\ text = <<"a">> \o EscapedNewline \o Quote
  /\ Len(normalized) >= 1
  /\ normalized[1] = <<"a", "\n", "'">>

(***************************************************************************)
(* Properties of the answer split.                                         *)
(***************************************************************************)
\* The raw answer of the backend, when it has exactly one.
rawAnswerGiven == (CHOOSE a \in backendAnswers : TRUE).str

RECURSIVE nonEmptyTrimmed(_)
nonEmptyTrimmed(ps) ==
  IF ps = <<>> THEN <<>>
  ELSE IF trim(Head(ps)) = <<>> THEN nonEmptyTrimmed(Tail(ps))
  ELSE <<trim(Head(ps))>> \o nonEmptyTrimmed(Tail(ps))

\* The pieces of the raw answer around '---', trimmed, the empty ones left out.
pieces == nonEmptyTrimmed(split(rawAnswerGiven, Delimiter))

\* s without a leading 'System guidance applied:' (any letter case) and the whitespace after it.
labelRemoved(s) ==
  IF Len(s) >= Len(GuidanceLabel) /\
     toLowerCase(SubSeq(s, 1, Len(GuidanceLabel))) = toLowerCase(GuidanceLabel)
  THEN stripLeading(SubSeq(s, Len(GuidanceLabel) + 1, Len(s)), WhiteSpace)
  ELSE s

aiMessages == {messages[k] : k \in {j \in 1..Len(messages) : ~messages[j].isUser}}

\* C5: with two or more pieces, the assistant message's content is the
\* normalized first piece and its guidance the normalized rest, joined with
\* ' --- ' and without the leading label; the guidance is defined exactly when
\* there are two or more pieces.
C5_MainAndGuidance ==
  \A m \in aiMessages :
    /\ Len(pieces) >= 2 =>
         /\ m.content = normalizeResponseText(pieces[1])
         /\ m.systemGuidance =
              Some(normalizeResponseText(
                     labelRemoved(join(Tail(pieces), <<" ", "-", "-", "-", " ">>))))
    /\ m.systemGuidance # Undefined <=> Len(pieces) >= 2

\* 'a --- system Guidance applied: a---a' gives main a and guidance 'a --- a'.
C5_Witness ==
  /\ Len(pieces) = 3
  /\ startsWithIgnoreCase(pieces[2], GuidanceLabel)
  /\ \E m \in aiMessages :
       m.content = <<"a">> /\ m.systemGuidance = Some(<<"a", " ", "-", "-", "-", " ", "a">>)

\* C6: with fewer than two pieces, the assistant message's content is the
\* normalized whole raw answer, delimiters included, and it has no guidance.
C6_WholeAnswer ==
  \A m \in aiMessages :
    Len(pieces) < 2 =>
      m.content = normalizeResponseText(rawAnswerGiven) /\ m.systemGuidance = Undefined

\* '---a---' has one piece and stays whole.
C6_Witness ==
  /\ rawAnswerGiven = Delimiter \o <<"a">> \o Delimiter
  /\ \E m \in aiMessages :
       m.content = Delimiter \o <<"a">> \o Delimiter /\ m.systemGuidance = Undefined

(***************************************************************************)
(* More properties of the resolver.                                        *)
(***************************************************************************)
\* The first of the given segments is a known route name (compared in lower case).
beginsWithRoute(segs) == segs # <<>> /\ toLowerCase(segs[1]) \in APP_ROUTES

firstSegmentIsRoute == beginsWithRoute(segmentsOf(pathname))

\* C20: auto-detected, the scan for the first known route never yields a
\* subpath. When the first kept segment is no route and more segments follow,
\* a route among them or not, the subpath is that one segment ('/a/b/login'
\* gives '/a/api'); when it is a route, the first known route is at index 0 and
\* the result comes from the base tag alone, '/api' if its href does not count.
C20_OneSegmentOnly ==
  AutoDetected =>
    LET segs == segmentsOf(pathname)
        routeFirst == beginsWithRoute(segs) IN
    /\ (Len(segs) >= 2 /\ ~routeFirst) => API_BASE = Slash \o segs[1] \o ApiSuffix
    /\ (routeFirst /\ ~baseHrefCounts(baseTag)) => API_BASE = ApiSuffix

\* '/PatriotAI/x/login' resolves to '/PatriotAI/api', not '/PatriotAI/x/api'.
C20_Witness ==
  /\ AutoDetected
  /\ pathname = Slash \o PatriotAI \o Slash \o <<"x">> \o Slash \o Login
  /\ API_BASE = Slash \o PatriotAI \o ApiSuffix

\* h without one trailing slash.
withoutOneSlash(h) ==
  IF h # <<>> /\ h[Len(h)] = "/" THEN SubSeq(h, 1, Len(h) - 1) ELSE h

RuntimeDetected ==
  loaded /\ REACT_APP_API_BASE_URL = <<>> /\ PUBLIC_URL \in {<<>>, Slash}

\* C13 as stated: API_BASE ends in '/api' whichever tier produced it, and when
\* tier 3 produced it the part before '/api' is empty or starts with '/' and
\* does not end with '/'.
C13_AsStated ==
  loaded =>
    /\ endsWith(API_BASE, ApiSuffix)
    /\ RuntimeDetected =>
         LET subpath == beforeApi(API_BASE) IN
         subpath = <<>> \/ (subpath[1] = "/" /\ subpath[Len(subpath)] # "/")

\* C13 amended: API_BASE ends in '/api' whichever tier produced it, and when
\* tier 3 produced it the part before '/api' is empty or starts with '/'; it
\* ends with '/' only when it is a base href that ends in '//', one slash removed.
C13_EndsWithApi ==
  loaded =>
    /\ endsWith(API_BASE, ApiSuffix)
    /\ RuntimeDetected =>
         LET subpath == beforeApi(API_BASE) IN
         \/ subpath = <<>>
         \/ /\ subpath[1] = "/"
            /\ subpath[Len(subpath)] = "/" =>
                 /\ hasWindow
                 /\ firstSegmentIsRoute
                 /\ baseHrefCounts(baseTag)
                 /\ endsWith(baseTag.href, Slash \o Slash)
                 /\ subpath = withoutOneSlash(baseTag.href)

\* '/login' under <base href="//"> resolves to '//api'.
C13_Witness ==
  /\ RuntimeDetected
  /\ hasWindow
  /\ firstSegmentIsRoute
  /\ baseTag = BaseTag(Slash \o Slash)
  /\ API_BASE = Slash \o ApiSuffix

\* The app is deployed at the root of the site: tier 3 decides and no base tag
\* says otherwise.
RootDeployment == AutoDetected /\ ~baseHrefCounts(baseTag)

\* The first-level route name of one of the app's own paths ('' for '/').
routeName(path) ==
  LET segs == segmentsOf(path) IN IF segs = <<>> THEN <<>> ELSE segs[1]

\* C12 as stated: a root deployment loaded at one of the router's routes or of
\* the sidebar's menu paths finds that route's name among the known routes and
\* resolves to '/api'.
C12_AsStated ==
  (RootDeployment /\ pathname \in RouterPaths \cup menuItems) =>
    /\ routeName(pathname) \in APP_ROUTES
    /\ API_BASE = ApiSuffix

(***************************************************************************)
(* The two utilities together: the resolver evaluated in some environment, *)
(* or the normalizer called on some argument.                              *)
(***************************************************************************)
InitUtilities == InitResolve \/ InitNormalize

NextUtilities == LoadModule \/ Normalize \/ NormalizeAgain

SpecUtilities == InitUtilities /\ [][NextUtilities]_vars

\* Reading the location or querying the document raised inside detectBasePath.
inspectionRaised ==
  \/ ~hasWindow
  \/ hasWindow /\ firstSegmentIsRoute /\ baseTag.raises

\* The normalizer has been called on its argument.
normalizeCalled == normRaised \/ Len(normalized) >= 1

Emails == DemoEmails \cup InheritedKeys \cup {"nobody@kenyalaw.ai", ""}

Passwords == {"demo123", "Demo123", ""}

\* The effect run when the AuthProvider mounts: a stored session is parsed
\* and becomes the user; a raise in JSON.parse leaves the effect unfinished.
restoreSession ==
  /\ authIsLoading
  /\ ~sessionRaised
  /\ IF storedUser # Undefined
     THEN IF parseRaises(storedUser[1])
          THEN sessionRaised' = TRUE /\ UNCHANGED <<user, authIsLoading>>
          ELSE /\ user' = Some(parseUser(storedUser[1]))
               /\ authIsLoading' = FALSE
               /\ UNCHANGED sessionRaised
     ELSE /\ authIsLoading' = FALSE
          /\ UNCHANGED <<user, sessionRaised>>
  /\ UNCHANGED <<coreVars, notAuthVars, storedUser, loginCalls, lastLogin>>

\* login(email, password): it has no await, so it runs in one step.
login(email, password) ==
  /\ ~sessionRaised
  /\ loginCalls < MaxLogins
  /\ loginCalls' = loginCalls + 1
  /\ IF lookupDemoUser(email) # Undefined /\ password = "demo123"
     THEN LET userData == lookupDemoUser(email)[1] IN
          /\ user' = Some(userData)
          /\ storedUser' = Some(stringifyUser(userData))
          /\ lastLogin' = Some([email |-> email, password |-> password, threw |-> FALSE])
     ELSE /\ lastLogin' = Some([email |-> email, password |-> password, threw |-> TRUE])
          /\ UNCHANGED <<user, storedUser>>
  /\ UNCHANGED <<coreVars, notAuthVars, authIsLoading, sessionRaised>>

logout ==
  /\ ~sessionRaised
  /\ user' = Undefined
  /\ storedUser' = Undefined
  /\ UNCHANGED <<coreVars, notAuthVars, authIsLoading, sessionRaised, loginCalls,
                 lastLogin>>

\* The page is reloaded: the provider is constructed anew, localStorage stays.
reloadPage ==
  /\ user' = Undefined
  /\ authIsLoading' = TRUE
  /\ sessionRaised' = FALSE
  /\ UNCHANGED <<coreVars, notAuthVars, storedUser, loginCalls, lastLogin>>

InitAuth == RootLoaded /\ NormIdle /\ ChatIdle /\ SideIdle

NextAuth ==
  \/ restoreSession
  \/ \E email \in Emails : \E password \in Passwords : login(email, password)
  \/ logout
  \/ reloadPage

SpecAuth == InitAuth /\ [][NextAuth]_vars

\* C15 as stated: a call of login with one of the demo emails and the password
\* 'demo123' does not throw, sets the user to that account's record and stores
\* it; every other call throws and changes neither the user nor the stored item.
C15_AsStated ==
  [][loginCalls' # loginCalls =>
       LET call == lastLogin'[1] IN
       IF call.email \in DemoEmails /\ call.password = "demo123"
       THEN /\ ~call.threw
            /\ user' = Some(demoUsers[call.email])
            /\ storedUser' = Some([json |-> "record", value |-> demoUsers[call.email]])
       ELSE /\ call.threw
            /\ user' = user
            /\ storedUser' = storedUser]_vars

(***************************************************************************)
(* The Uploads page: drop, metadata form, upload, removal.                 *)
(***************************************************************************)
\* The files a user may drop, all of an accepted type and size.
Files == {"a.pdf", "b.docx", "c.txt"}

\* What one drop may hand to onDrop as acceptedFiles: up to MaxAccepted
\* different files, none when every dropped file was rejected.
AcceptedFiles ==
  UNION { {fs \in [1..n -> Files] : \A i, j \in 1..n : i # j => fs[i] # fs[j]} :
          n \in 0..MaxAccepted }

UploadedDocument(id, file, status) == [id |-> id, filename |-> file, status |-> status]

\* prev.map(doc => doc.id === id ? {...doc, status} : doc)
withStatus(docs, id, status) ==
  [k \in 1..Len(docs) |->
     IF docs[k].id = id THEN [docs[k] EXCEPT !.status = status] ELSE docs[k]]

\* prev.filter(doc => doc.id !== id)
RECURSIVE withoutDocument(_, _)
withoutDocument(docs, id) ==
  IF docs = <<>> THEN <<>>
  ELSE IF Head(docs).id = id THEN withoutDocument(Tail(docs), id)
  ELSE <<Head(docs)>> \o withoutDocument(Tail(docs), id)

\* onDrop(acceptedFiles), on a dropzone that is not disabled: the first
\* accepted file goes to the metadata form.
onDrop(acceptedFiles) ==
  /\ ~(isUploading \/ showMetadataForm)
  /\ dropped' = dropped \cup {acceptedFiles[i] : i \in 1..Len(acceptedFiles)}
  /\ withdrawn' = withdrawn \ {acceptedFiles[i] : i \in 1..Len(acceptedFiles)}
  /\ IF Len(acceptedFiles) > 0
     THEN /\ currentFile' = Some(acceptedFiles[1])
          /\ showMetadataForm' = TRUE
     ELSE UNCHANGED <<currentFile, showMetadataForm>>
  /\ UNCHANGED <<coreVars, notUploadVars, documents, isUploading, uploading, uploadsStarted>>

\* The Cancel button of the metadata form: the user gives up what they dropped.
cancelMetadata ==
  /\ showMetadataForm
  /\ showMetadataForm' = FALSE
  /\ currentFile' = Undefined
  /\ withdrawn' = dropped
  /\ UNCHANGED <<coreVars, notUploadVars, documents, isUploading, uploading, uploadsStarted,
                 dropped>>

\* handleMetadataSubmit and uploadFile up to the await of the POST: the
\* document enters the list as 'uploading'.
handleMetadataSubmit ==
  /\ showMetadataForm
  /\ uploadsStarted < MaxUploads
  /\ IF currentFile = Undefined
     THEN UNCHANGED uploadVars
     ELSE /\ showMetadataForm' = FALSE
          /\ isUploading' = TRUE
          /\ uploadsStarted' = uploadsStarted + 1
          /\ uploading' = Some(uploadsStarted + 1)
          /\ documents' =
               <<UploadedDocument(uploadsStarted + 1, currentFile[1], "uploading")>> \o documents
          /\ UNCHANGED <<currentFile, dropped, withdrawn>>
  /\ UNCHANGED <<coreVars, notUploadVars>>

\* The POST answered with data.indexed = indexed, or rejected (failed): the
\* document's status is set, then handleMetadataSubmit resumes and resets.
uploadSettled(failed, indexed) ==
  /\ uploading # Undefined
  /\ documents' = withStatus(documents, uploading[1],
                             IF ~failed /\ indexed THEN "indexed" ELSE "error")
  /\ isUploading' = FALSE
  /\ currentFile' = Undefined
  /\ uploading' = Undefined
  /\ UNCHANGED <<coreVars, notUploadVars, showMetadataForm, uploadsStarted, dropped, withdrawn>>

\* The remove button of a listed document.
deleteDocument(id) ==
  /\ \E k \in 1..Len(documents) : documents[k].id = id
  /\ documents' = withoutDocument(documents, id)
  /\ withdrawn' =
       withdrawn \cup {documents[k].filename :
                         k \in {j \in 1..Len(documents) : documents[j].id = id}}
  /\ UNCHANGED <<coreVars, notUploadVars, isUploading, showMetadataForm, currentFile, uploading,
                 uploadsStarted, dropped>>

InitUploads == RootLoaded /\ NormIdle /\ ChatIdle /\ SideIdle

NextUploads ==
  \/ \E acceptedFiles \in AcceptedFiles : onDrop(acceptedFiles)
  \/ cancelMetadata
  \/ handleMetadataSubmit
  \/ \E failed, indexed \in BOOLEAN : uploadSettled(failed, indexed)
  \/ \E id \in 1..MaxUploads : deleteDocument(id)

SpecUploads == InitUploads /\ [][NextUploads]_vars

\* Nothing of the upload flow is pending: no form shown, no upload awaited.
uploadFlowAtRest == ~showMetadataForm /\ ~isUploading /\ currentFile = Undefined

listedFiles == {documents[k].filename : k \in 1..Len(documents)}

\* C16 as stated: once the upload flow is at rest, every accepted file that
\* was dropped, and that the user has not given up or removed since, has been
\* uploaded and is in the document list.
C16_AsStated ==
  uploadFlowAtRest => (dropped \ withdrawn) \subseteq listedFiles

(***************************************************************************)
(* The Reports page: its effects and handlers.                             *)
(***************************************************************************)
\* What the user may type into the search box.
SearchTerms ==
  { <<>>, <<"L","A","W">>, <<"a","i">>, <<"b","a","i","l">>, <<" ">>, <<"z","z">> }

ReportTypes == {"all", "case-brief", "legal-opinion", "research-memo", "comparative"}

ReportStatuses == {"all", "published", "approved", "review", "draft"}

\* The two effects of the first render, run one after the other: the first
\* sets the mock reports, the second still sees the empty list of that render
\* and its setFilteredReports comes last.
mountReports ==
  /\ reportsLoading
  /\ reports' = mockReports
  /\ filteredReports' = filtered(reports, searchTerm, filterType, filterStatus)
  /\ reportsLoading' = FALSE
  /\ filterEffectDue' = TRUE
  /\ UNCHANGED <<coreVars, notReportVars, searchTerm, filterType, filterStatus, briefs>>

\* The filter effect, run after a render in which one of its dependencies changed.
filterEffect ==
  /\ filterEffectDue
  /\ filteredReports' = filtered(reports, searchTerm, filterType, filterStatus)
  /\ filterEffectDue' = FALSE
  /\ UNCHANGED <<coreVars, notReportVars, reports, searchTerm, filterType, filterStatus,
                 reportsLoading, briefs>>

\* The page is rendered and the effects of the last render have run: the
\* handlers of its controls can be called.
reportsReady == ~reportsLoading /\ ~filterEffectDue

setSearchTerm(v) ==
  /\ reportsReady
  /\ searchTerm' = v
  /\ filterEffectDue' = (v # searchTerm)
  /\ UNCHANGED <<coreVars, notReportVars, reports, filteredReports, filterType, filterStatus,
                 reportsLoading, briefs>>

setFilterType(v) ==
  /\ reportsReady
  /\ filterType' = v
  /\ filterEffectDue' = (v # filterType)
  /\ UNCHANGED <<coreVars, notReportVars, reports, filteredReports, searchTerm, filterStatus,
                 reportsLoading, briefs>>

setFilterStatus(v) ==
  /\ reportsReady
  /\ filterStatus' = v
  /\ filterEffectDue' = (v # filterStatus)
  /\ UNCHANGED <<coreVars, notReportVars, reports, filteredReports, searchTerm, filterType,
                 reportsLoading, briefs>>

\* The Generate Brief button.
generateReport ==
  /\ reportsReady
  /\ briefs < MaxBriefs
  /\ briefs' = briefs + 1
  /\ reports' = <<generatedId(briefs + 1)>> \o reports
  /\ filterEffectDue' = TRUE
  /\ UNCHANGED <<coreVars, notReportVars, filteredReports, searchTerm, filterType, filterStatus,
                 reportsLoading>>

InitReports == RootLoaded /\ NormIdle /\ ChatIdle /\ SideIdle

NextReports ==
  \/ mountReports
  \/ filterEffect
  \/ \E v \in SearchTerms : setSearchTerm(v)
  \/ \E v \in ReportTypes : setFilterType(v)
  \/ \E v \in ReportStatuses : setFilterStatus(v)
  \/ generateReport

SpecReports == InitReports /\ [][NextReports]_vars

\* t occurs in s, letter case apart.
containsIgnoringCase(s, t) ==
  \E i \in 0..(Len(s) - Len(t)) : \A k \in 1..Len(t) : toLowerChar(s[i + k]) = toLowerChar(t[k])

\* A report passes the three filters as they are set.
passesFilters(r, term, type, status) ==
  /\ \/ containsIgnoringCase(r.title, term)
     \/ containsIgnoringCase(r.summary, term)
     \/ \E k \in 1..Len(r.tags) : containsIgnoringCase(r.tags[k], term)
  /\ type = "all" \/ r.type = type
  /\ status = "all" \/ r.status = status

\* C17: whenever the page is rendered and its effects have run, the displayed
\* list is the reports list restricted, in its order, to the reports that pass
\* the search (title, summary or a tag, letter case apart), the type filter and
\* the status filter ('all' passes everything); and Generate Brief puts one new
\* draft case-brief in front of the reports list, which grows by exactly one,
\* whatever the filters are.
C17_FilteredList ==
  [][/\ (~reportsLoading' /\ ~filterEffectDue') =>
          filteredReports' =
            SelectSeq(reports', LAMBDA id : passesFilters(Report(id), searchTerm', filterType',
                                                          filterStatus'))
     /\ briefs' # briefs =>
          /\ Len(reports') = Len(reports) + 1
          /\ Tail(reports') = reports
          /\ \A k \in 1..Len(reports) : reports[k] # Head(reports')
          /\ Report(Head(reports')).type = "case-brief"
          /\ Report(Head(reports')).status = "draft"]_vars

\* One brief generated under the search 'ai' and the type 'case-brief': the
\* new brief and the first mock report are displayed, of five reports.
C17_Witness ==
  /\ reportsReady
  /\ briefs = 1
  /\ searchTerm = <<"a","i">>
  /\ filterType = "case-brief"
  /\ Len(reports) = 5
  /\ filteredReports = <<generatedId(1), mockReports[1]>>

(***************************************************************************)
(* deploy-frontend.sh: one run of the script, step by step.  A directory   *)
(* is the set of its entries; a command that may fail on the host (no      *)
(* permission, full disk) either has its whole effect or none.             *)
(***************************************************************************)
\* The paths the detection may come up with, one of them with a space in it.
DeployPaths == {"/var/www/html/PatriotAI", "/srv/www/Patriot AI"}

\* Word splitting breaks an unquoted $DEPLOY_PATH in two.
splitsInWords(path) == path = "/srv/www/Patriot AI"

\* What a deployment directory may hold before the run, a dotfile included.
OldEntries == {"index.html", "static", ".htaccess"}

\* What frontend/build may hold.
BuildEntries == {"index.html", "asset-manifest.json"}

ExitedEarly == "exited"

InitDeploy ==
  /\ RootLoaded /\ NormIdle /\ ChatIdle
  /\ AuthIdle /\ UploadsIdle /\ ReportsIdle
  /\ pc = "detect"
  /\ DEPLOY_PATH = Undefined
  /\ \/ deployDir = Undefined
     \/ \E entries \in SUBSET OldEntries : deployDir = Some(entries)
  /\ \/ buildDir = Undefined
     \/ \E entries \in SUBSET BuildEntries : buildDir = Some(entries)
  /\ backupDir = Undefined
  /\ exitStatus = Undefined
  /\ originalDir = deployDir
  /\ removed = {}
  /\ overwritten = {}

\* Lines 19-62: the path comes from the web server's configuration, from a
\* common location that exists, or from the prompt.
detectPath ==
  /\ pc = "detect"
  /\ \E path \in DeployPaths : DEPLOY_PATH' = Some(path)
  /\ pc' = "verify"
  /\ UNCHANGED <<coreVars, notDeployVars, deployDir, buildDir, backupDir, exitStatus,
                 originalDir, removed, overwritten>>

\* Lines 64-69: a missing deployment directory is created, if mkdir can.
verifyPath ==
  /\ pc = "verify"
  /\ IF deployDir = Undefined
     THEN \E made \in BOOLEAN : deployDir' = IF made THEN Some({}) ELSE Undefined
     ELSE UNCHANGED deployDir
  /\ pc' = "checkBuild"
  /\ UNCHANGED <<coreVars, notDeployVars, DEPLOY_PATH, buildDir, backupDir, exitStatus,
                 originalDir, removed, overwritten>>

\* A build check that reports the missing directory and goes on.
checkBuild_NoExit ==
  /\ pc = "checkBuild"
  /\ pc' = "backup"
  /\ UNCHANGED <<coreVars, notDeployVars, DEPLOY_PATH, deployDir, buildDir, backupDir,
                 exitStatus, originalDir, removed, overwritten>>

\* Lines 71-78: without frontend/build the script ends with exit 1.
checkBuild ==
  /\ pc = "checkBuild"
  /\ IF buildDir = Undefined
     THEN pc' = ExitedEarly /\ exitStatus' = Some(1)
     ELSE pc' = "backup" /\ UNCHANGED exitStatus
  /\ UNCHANGED <<coreVars, notDeployVars, DEPLOY_PATH, deployDir, buildDir, backupDir,
                 originalDir, removed, overwritten>>

\* [ -d "$DEPLOY_PATH" ] && [ "$(ls -A $DEPLOY_PATH 2>/dev/null)" ]: with the
\* path split in words ls lists nothing and the test fails.
deploymentSeenNonEmpty ==
  /\ deployDir # Undefined
  /\ deployDir[1] # {}
  /\ ~splitsInWords(DEPLOY_PATH[1])

\* Lines 86-91: cp -r to the backup directory; the script goes on whether
\* or not the copy succeeded.
backupDeployment ==
  /\ pc = "backup"
  /\ IF deploymentSeenNonEmpty
     THEN \E copied \in BOOLEAN : backupDir' = IF copied THEN deployDir ELSE Undefined
     ELSE UNCHANGED backupDir
  /\ pc' = "clean"
  /\ UNCHANGED <<coreVars, notDeployVars, DEPLOY_PATH, deployDir, buildDir, exitStatus,
                 originalDir, removed, overwritten>>

\* Lines 93-95: rm -rf of every entry, dotfiles included.
cleanOldFiles ==
  /\ pc = "clean"
  /\ \E deleted \in BOOLEAN :
       IF deleted /\ deployDir # Undefined
       THEN deployDir' = Some({}) /\ removed' = deployDir[1]
       ELSE UNCHANGED <<deployDir, removed>>
  /\ pc' = "copy"
  /\ UNCHANGED <<coreVars, notDeployVars, DEPLOY_PATH, buildDir, backupDir, exitStatus,
                 originalDir, overwritten>>

\* Lines 97-99: cp -r of the build's entries; nothing to copy from an empty
\* build, nowhere to copy to without the directory.
copyBuild ==
  /\ pc = "copy"
  /\ \E copied \in BOOLEAN :
       IF copied /\ deployDir # Undefined /\ buildDir[1] # {}
       THEN /\ deployDir' = Some(deployDir[1] \cup buildDir[1])
            /\ overwritten' = deployDir[1] \cap buildDir[1]
       ELSE UNCHANGED <<deployDir, overwritten>>
  /\ pc' = "permissions"
  /\ UNCHANGED <<coreVars, notDeployVars, DEPLOY_PATH, buildDir, backupDir, exitStatus,
                 originalDir, removed>>

\* Lines 101-116: chown, chmod and the closing messages; the script ends
\* with the status of its last echo.
setPermissions ==
  /\ pc = "permissions"
  /\ pc' = "done"
  /\ exitStatus' = Some(0)
  /\ UNCHANGED <<coreVars, notDeployVars, DEPLOY_PATH, deployDir, buildDir, backupDir,
                 originalDir, removed, overwritten>>

NextDeploy ==
  \/ detectPath
  \/ verifyPath
  \/ checkBuild
  \/ backupDeployment
  \/ cleanOldFiles
  \/ copyBuild
  \/ setPermissions

SpecDeploy == InitDeploy /\ [][NextDeploy]_vars

C19_NoBuildNoChange ==
  buildDir = Undefined =>
    /\ pc \in {"detect", "verify", "checkBuild", ExitedEarly}
    /\ pc = ExitedEarly <=> exitStatus = Some(1)
    /\ pc # ExitedEarly => exitStatus = Undefined
    /\ backupDir = Undefined /\ removed = {} /\ overwritten = {}
    /\ IF originalDir = Undefined THEN deployDir \in {Undefined, Some({})}
       ELSE deployDir = originalDir

\* A run ended with status 1 next to a deployment left as it was.
C19_Witness ==
  /\ buildDir = Undefined
  /\ pc = ExitedEarly
  /\ exitStatus = Some(1)
  /\ deployDir = Some(OldEntries)

(***************************************************************************)
(* A raw answer that is wrapped as a whole.                                *)
(***************************************************************************)
\* The raw answer is content='...' from its first character to its last.
wrappedWhole ==
  /\ startsWith(rawAnswerGiven, ContentMarker \o Quote)
  /\ endsWith(rawAnswerGiven, Quote)
  /\ Len(rawAnswerGiven) > Len(ContentMarker) + 1

\* What the wrapper holds.
wrappedText ==
  SubSeq(rawAnswerGiven, Len(ContentMarker) + 2, Len(rawAnswerGiven) - 1)

\* The pieces of the wrapped text around '---'.
wrappedPieces == nonEmptyTrimmed(split(wrappedText, Delimiter))

\* The raw answer is content='M --- System guidance applied: G', M and G not
\* empty and without a quote of their own.
wrappedMainAndGuidance ==
  /\ wrappedWhole
  /\ Len(wrappedPieces) = 2
  /\ startsWithIgnoreCase(wrappedPieces[2], GuidanceLabel)
  /\ labelRemoved(wrappedPieces[2]) # <<>>
  /\ indexOf(wrappedText, Quote) = 0

\* C21 as stated: for a raw answer content='M --- System guidance applied: G',
\* the assistant message has the content M and the guidance G, without the
\* leading content= and without the wrapper's closing quote.
C21_AsStated ==
  \A m \in aiMessages :
    wrappedMainAndGuidance =>
      /\ m.content = wrappedPieces[1]
      /\ m.systemGuidance = Some(labelRemoved(wrappedPieces[2]))

(***************************************************************************)
(* Properties of the chat.                                                 *)
(***************************************************************************)
\* C22 as stated: whatever the order of submit, answer, failure and Clear
\* Chat, every assistant message in the list comes right after a user message,
\* the one of the query that produced it; none is the first of the list or
\* follows another assistant message.
C22_AsStated ==
  \A k \in 1..Len(messages) :
    ~messages[k].isUser => (k > 1 /\ messages[k - 1].isUser)

\* The awaited requests of the page now mounted.
mountedRequests == SelectSeq(inflight, LAMBDA r : r.mounted)

\* C23 as stated: a query is sent only on a non-blank input and while none is
\* loading; at most one request is awaited at any time; isLoading is true
\* exactly while a request is awaited; and every request that completes sets
\* isLoading to false.
C23_AsStated ==
  [][ /\ sent' # sent => (trim(input) # <<>> /\ ~isLoading)
      /\ Len(inflight') <= 1
      /\ isLoading' <=> inflight' # <<>>
      /\ Len(inflight') < Len(inflight) => ~isLoading' ]_vars

\* C23 amended: a query is sent only on a non-blank input and while none is
\* loading; of the requests sent by the page now mounted at most one is
\* awaited, isLoading is true exactly while one is, and its completion sets
\* isLoading to false. A request sent before the page was left and revisited
\* stays awaited next to a new one, and its completion leaves isLoading as it is.
C23_OnePerMounting ==
  [][ /\ sent' # sent => (trim(input) # <<>> /\ ~isLoading)
      /\ Len(mountedRequests') <= 1
      /\ isLoading' <=> mountedRequests' # <<>>
      /\ Len(mountedRequests') < Len(mountedRequests) => ~isLoading'
      /\ (Len(inflight') < Len(inflight) /\ mountedRequests' = mountedRequests) =>
           isLoading' = isLoading ]_vars

\* Two requests awaited at once: one of the page left, one of the page revisited.
C23_Witness ==
  /\ Len(inflight) = 2
  /\ ~inflight[1].mounted
  /\ inflight[2].mounted
  /\ isLoading

\* A step in which a query request fails: the request is rejected, or
\* processing its response raises.
requestFails == toastErrors' # toastErrors

\* What a failure leaves alone: the message list, the input and the controls.
failureLeavesAlone ==
  /\ messages' = messages
  /\ input' = input
  /\ role' = role
  /\ presetId' = presetId
  /\ usePreset' = usePreset
  /\ useWebSearch' = useWebSearch

\* C24 as stated: when a query request fails, no assistant message is appended,
\* the user's message stays in the list, one error notification is shown, the
\* loading flag is cleared, and role, preset and web-search flag do not change.
C24_AsStated ==
  [][ requestFails =>
        /\ toastErrors' = toastErrors + 1
        /\ failureLeavesAlone
        /\ isLoading' = FALSE ]_vars

\* C24 amended: when a query request fails, no assistant message is appended,
\* the list keeps the messages it has, one error notification is shown, and
\* role, preset and web-search flag do not change; the loading flag is cleared
\* when the request is one of the page now mounted, and is left as it is when
\* the request was sent before the page was left and revisited.
C24_FailureHandled ==
  [][ requestFails =>
        /\ toastErrors' = toastErrors + 1
        /\ failureLeavesAlone
        /\ Len(inflight') = Len(inflight) - 1
        /\ isLoading' = (IF mountedRequests' # mountedRequests THEN FALSE ELSE isLoading) ]_vars

\* A query sent as general user with web sources has failed: the question is
\* still the only message, and the controls are as they were set.
C24_Witness ==
  /\ toastErrors = 1
  /\ inflight = <<>>
  /\ messages = <<UserMessage(Question)>>
  /\ ~isLoading
  /\ role = ""
  /\ useWebSearch

====
